---- MODULE Spec2Model ----
(***************************************************************************)
(* Layout engine of mmd2pptx (src/compiler/layout.ts, geometry.ts,          *)
(* quality/readability.ts) as a state machine.                              *)
(*                                                                          *)
(* Numbers.  The program computes in IEEE doubles.  The model computes in   *)
(* whole pixels: every coordinate is an integer, a product with a           *)
(* non-integer factor (0.936, 0.32, ...) is rounded to the nearest integer  *)
(* (RoundDiv, MulQ) and the tolerances 1e-6 / 1e-3 / 0.01 of the code       *)
(* become "differs by at least one unit".  Node widths and heights of the   *)
(* inputs are even, so that centres and side anchors are exact.  Scores     *)
(* are kept in hundredths (scoreLayoutQuality) or tenths                    *)
(* (evaluateReadability) so that their weights are integers.                *)
(***************************************************************************)
EXTENDS Integers, Sequences, FiniteSets, TLC

\* ------------------------------------------------------------------------
\* Arithmetic helpers (Math.abs, Math.min, Math.max, rounding)
\* ------------------------------------------------------------------------
Abs(v) == IF v < 0 THEN -v ELSE v

Min2(a, b) == IF a <= b THEN a ELSE b

Max2(a, b) == IF a >= b THEN a ELSE b

\* round(n / d) for d > 0, halves rounded up (Math.round)
RoundDiv(n, d) == (n + d \div 2) \div d

\* round(v * num / den)
MulQ(v, num, den) == RoundDiv(v * num, den)

\* ceil(n / d) for d > 0
CeilDiv(n, d) == -((-n) \div d)

clamp(value, lo, hi) == Min2(hi, Max2(lo, value))

\* a for loop over s[lo], ..., s[hi] in this order, Step(acc, element) being its
\* body: the first half of the range, then the second half on what the first left
RECURSIVE FoldFrom(_, _, _, _, _)
FoldFrom(Step(_, _), acc, s, lo, hi) ==
    IF lo > hi THEN acc
    ELSE IF lo = hi THEN Step(acc, s[lo])
    ELSE CHOOSE out \in {FoldFrom(Step, half, s, (lo + hi) \div 2 + 1, hi) :
                            half \in {FoldFrom(Step, acc, s, lo, (lo + hi) \div 2)}} : TRUE

\* Body on the value of an expression that is computed once (a const declaration)
With(value, Body(_)) == CHOOSE out \in {Body(v) : v \in {value}} : TRUE

\* the binary digits of a root below 2^15, the highest first
SqrtBits == <<16384, 8192, 4096, 2048, 1024, 512, 256, 128, 64, 32, 16, 8, 4, 2, 1>>

\* floor(sqrt(n)) for 0 <= n < 2^30, digit by digit
Isqrt(n) ==
    IF n <= 0 THEN 0
    ELSE FoldFrom(LAMBDA r, bit : IF (r + bit) * (r + bit) <= n THEN r + bit ELSE r,
                  0, SqrtBits, 1, Len(SqrtBits))

\* Math.hypot(dx, dy) rounded to the nearest pixel
Hypot(dx, dy) ==
    IF dx = 0 THEN Abs(dy)
    ELSE IF dy = 0 THEN Abs(dx)
    ELSE LET r == Isqrt(4 * (dx * dx + dy * dy)) IN (r + 1) \div 2

\* sequence helpers
Range(s) == {s[i] : i \in DOMAIN s}

SumSeq(s, k) == FoldFrom(LAMBDA a, b : a + b, 0, s, k, Len(s))

MinSeq(s, k) == FoldFrom(Min2, s[k], s, k + 1, Len(s))

MaxSeq(s, k) == FoldFrom(Max2, s[k], s, k + 1, Len(s))

\* the array with the elements f[1], ..., f[Len(f)] (the result of Array.map: a stored array)
ArrayOf(f) == SubSeq(f, 1, Len(f))

\* the array 1, ..., n: the values of a loop counter
Upto(n) == ArrayOf([k \in 1..n |-> k])

\* indices of the elements of s that satisfy Test, in order (Array.filter)
FilterIdx(s, Test(_)) ==
    FoldFrom(LAMBDA acc, k : IF Test(s[k]) THEN Append(acc, k) ELSE acc,
             <<>>, Upto(Len(s)), 1, Len(s))

\* index of the first element with the given id, 0 when there is none
\* (Map.get on a map built from the array; ids are unique)
IndexOfId(s, id) ==
    IF \E k \in DOMAIN s : s[k].id = id
    THEN CHOOSE k \in DOMAIN s : s[k].id = id /\ \A m \in DOMAIN s : s[m].id = id => k <= m
    ELSE 0

Pt(px, py) == [x |-> px, y |-> py]

\* ------------------------------------------------------------------------
\* geometry.ts
\* ------------------------------------------------------------------------
\* titleBandHeight; the title text is given by its number of wrapped lines
titleBandHeight(wrappedLines) ==
    IF wrappedLines <= 0 THEN 0 ELSE Max2(92, 18 + wrappedLines * 24)

NoBox == [has |-> FALSE, minX |-> 0, minY |-> 0, maxX |-> 0, maxY |-> 0]

Box(x0, y0, x1, y1) == [has |-> TRUE, minX |-> x0, minY |-> y0, maxX |-> x1, maxY |-> y1]

\* running min/max extent, starting from +/-Infinity (has = FALSE)
Extend(b, x0, y0, x1, y1) ==
    IF b.has
    THEN Box(Min2(b.minX, x0), Min2(b.minY, y0), Max2(b.maxX, x1), Max2(b.maxY, y1))
    ELSE Box(x0, y0, x1, y1)

\* children of a subgraph in array order (childrenByParent)
ChildIdsOf(sgs, id) ==
    LET idx == FilterIdx(sgs, LAMBDA s : s.parentId # "" /\ s.parentId = id)
    IN ArrayOf([k \in DOMAIN idx |-> sgs[idx[k]].id])

\* a node's rectangle added to a running extent
ExtendByNode(acc, node) ==
    Extend(acc, node.x, node.y, node.x + node.width, node.y + node.height)

\* an extent that leaves the child subgraphs out
ExtendByBoxSkipped(acc, box) == acc

\* a child's bounds added to a running extent (children without content are skipped)
ExtendByBox(acc, box) ==
    IF box.has THEN Extend(acc, box.minX, box.minY, box.maxX, box.maxY) ELSE acc

\* the member at index n of the node array (0: no such node) added to the extent
ExtendByMember(acc, nodes, n) == IF n = 0 THEN acc ELSE ExtendByNode(acc, nodes[n])

\* extent of the existing member nodes of a subgraph
MemberExtent(nodes, nodeIds) ==
    FoldFrom(LAMBDA acc, id : ExtendByMember(acc, nodes, IndexOfId(nodes, id)),
             NoBox, nodeIds, 1, Len(nodeIds))

\* the rectangle written from the extent whether or not anything entered it
StoreSubgraphBoundsAlways(ch, si, subgraphId, padding, titleBand) ==
    [st |-> [sgs |-> [ch.st.sgs EXCEPT ![si] =
                         [@ EXCEPT !.x = ch.acc.minX - padding,
                                   !.y = ch.acc.minY - padding - titleBand,
                                   !.width = ch.acc.maxX - ch.acc.minX + padding * 2,
                                   !.height = ch.acc.maxY - ch.acc.minY + padding * 2
                                              + titleBand]],
             done |-> ch.st.done \cup {subgraphId},
             res |-> [ch.st.res EXCEPT ![subgraphId] =
                         Box(ch.acc.minX - padding,
                             ch.acc.minY - padding - titleBand,
                             ch.acc.maxX + padding,
                             ch.acc.maxY + padding)]],
     box |-> Box(ch.acc.minX - padding, ch.acc.minY - padding - titleBand,
                 ch.acc.maxX + padding, ch.acc.maxY + padding)]

\* the assignment of subgraph.x/y/width/height from the extent ch.acc of its
\* content, and the entry of computedBounds
StoreSubgraphBounds(ch, si, subgraphId, padding, titleBand) ==
    IF ~ch.acc.has
    THEN [st |-> [ch.st EXCEPT !.done = @ \cup {subgraphId}, !.res[subgraphId] = NoBox],
          box |-> NoBox]
    ELSE [st |-> [sgs |-> [ch.st.sgs EXCEPT ![si] =
                              [@ EXCEPT !.x = ch.acc.minX - padding,
                                        !.y = ch.acc.minY - padding - titleBand,
                                        !.width = ch.acc.maxX - ch.acc.minX + padding * 2,
                                        !.height = ch.acc.maxY - ch.acc.minY + padding * 2
                                                   + titleBand]],
                  done |-> ch.st.done \cup {subgraphId},
                  res |-> [ch.st.res EXCEPT ![subgraphId] =
                              Box(ch.acc.minX - padding,
                                  ch.acc.minY - padding - titleBand,
                                  ch.acc.maxX + padding,
                                  ch.acc.maxY + padding)]],
          box |-> Box(ch.acc.minX - padding, ch.acc.minY - padding - titleBand,
                      ch.acc.maxX + padding, ch.acc.maxY + padding)]

\* resolveSubgraphBounds: st = [sgs, done (ids in computedBounds), res (id -> box)]
RECURSIVE resolveSubgraphBounds(_, _, _, _)
RECURSIVE ResolveChildren(_, _, _, _, _, _)
RECURSIVE ResolveNextChild(_, _, _, _, _, _)
ResolveNextChild(r, nodes, childIds, k, visiting, acc) ==
    ResolveChildren(r.st, nodes, childIds, k + 1, visiting, ExtendByBox(acc, r.box))

ResolveChildren(st, nodes, childIds, k, visiting, acc) ==
    IF k > Len(childIds) THEN [st |-> st, acc |-> acc]
    ELSE ResolveNextChild(resolveSubgraphBounds(st, nodes, childIds[k], visiting),
                          nodes, childIds, k, visiting, acc)

ResolveKnownSubgraph(st, nodes, subgraphId, visiting, si) ==
    IF si = 0
    THEN [st |-> [st EXCEPT !.done = @ \cup {subgraphId}], box |-> NoBox]
    ELSE StoreSubgraphBounds(
             ResolveChildren(st, nodes, ChildIdsOf(st.sgs, subgraphId), 1,
                             visiting \cup {subgraphId},
                             MemberExtent(nodes, st.sgs[si].nodeIds)),
             si, subgraphId, st.sgs[si].padding, titleBandHeight(st.sgs[si].titleLines))

resolveSubgraphBounds(st, nodes, subgraphId, visiting) ==
    IF subgraphId \in st.done THEN [st |-> st, box |-> st.res[subgraphId]]
    ELSE IF subgraphId \in visiting THEN [st |-> st, box |-> NoBox]
    ELSE ResolveKnownSubgraph(st, nodes, subgraphId, visiting, IndexOfId(st.sgs, subgraphId))

SubgraphIdsOf(sgs) == {sgs[k].id : k \in DOMAIN sgs} \cup {sgs[k].parentId : k \in DOMAIN sgs}

recomputeSubgraphBounds(ir) ==
    [ir EXCEPT !.subgraphs =
        FoldFrom(LAMBDA st, subgraph : resolveSubgraphBounds(st, ir.nodes, subgraph.id, {}).st,
                 [sgs |-> ir.subgraphs, done |-> {},
                  res |-> [id \in SubgraphIdsOf(ir.subgraphs) |-> NoBox]],
                 ir.subgraphs, 1, Len(ir.subgraphs)).sgs]

ExtendByPoint(b, p) == Extend(b, p.x, p.y, p.x, p.y)

PointsExtent(b, pts) == FoldFrom(ExtendByPoint, b, pts, 1, Len(pts))

ExtendByEdge(b, edge) == PointsExtent(b, edge.points)

ZeroBounds == [minX |-> 0, minY |-> 0, maxX |-> 0, maxY |-> 0, width |-> 0, height |-> 0]

\* ir.bounds from the extent b (all zero when nothing was finite)
BoundsOf(b) ==
    IF ~b.has THEN ZeroBounds
    ELSE [minX |-> b.minX, minY |-> b.minY, maxX |-> b.maxX, maxY |-> b.maxY,
          width |-> b.maxX - b.minX, height |-> b.maxY - b.minY]

\* the extent of the nodes alone
AllExtentOfNodes(ir) == FoldFrom(ExtendByNode, NoBox, ir.nodes, 1, Len(ir.nodes))

\* extent of nodes, then subgraphs, then edge points
AllExtent(ir) ==
    CHOOSE out \in
        {FoldFrom(ExtendByEdge, withSubgraphs, ir.edges, 1, Len(ir.edges)) :
         withSubgraphs \in {FoldFrom(ExtendByNode, withNodes, ir.subgraphs, 1, Len(ir.subgraphs)) :
         withNodes \in {FoldFrom(ExtendByNode, NoBox, ir.nodes, 1, Len(ir.nodes))}}} : TRUE

recomputeBounds(ir) == [ir EXCEPT !.bounds = BoundsOf(AllExtent(ir))]

\* recomputeSubgraphBounds(ir); recomputeBounds(ir)
Remeasure(ir) ==
    CHOOSE out \in {recomputeBounds(sized) : sized \in {recomputeSubgraphBounds(ir)}} : TRUE

\* ------------------------------------------------------------------------
\* layout.ts: configuration
\* ------------------------------------------------------------------------
MIN_LAYOUT_ASPECT_NUM == 4

MIN_LAYOUT_ASPECT_DEN == 3

MAX_LAYOUT_ASPECT_NUM == 16

MAX_LAYOUT_ASPECT_DEN == 9

toRankdir(direction) ==
    IF direction = "BT" THEN "BT"
    ELSE IF direction = "LR" THEN "LR"
    ELSE IF direction = "RL" THEN "RL"
    ELSE "TB"

IsVertical(rankdir) == rankdir = "TB" \/ rankdir = "BT"

NonJunctionIdx(nodes) == FilterIdx(nodes, LAMBDA n : ~n.isJunction)

\* resolveReadableLayoutConfig; loads and complexity in thousandths
resolveReadableLayoutConfig(ir) ==
    LET nj == NonJunctionIdx(ir.nodes)
        nonJunctionNodeCount == Len(nj)
        edgeCount == Len(ir.edges)
        labelSum == SumSeq(ArrayOf([k \in DOMAIN nj |-> ir.nodes[nj[k]].labelLen]), 1)
        sizeLoad == clamp(RoundDiv((nonJunctionNodeCount - 10) * 1000, 42), 0, 1000)
        edgeLoad == clamp(RoundDiv((edgeCount - Max2(6, nonJunctionNodeCount)) * 10000,
                                   Max2(140, nonJunctionNodeCount * 17)), 0, 1000)
        textLoad == IF nonJunctionNodeCount > 0
                    THEN clamp(RoundDiv((labelSum - 22 * nonJunctionNodeCount) * 1000,
                                        46 * nonJunctionNodeCount), 0, 1000)
                    ELSE 0
        complexity == clamp(RoundDiv(sizeLoad * 45 + edgeLoad * 35 + textLoad * 20, 100), 0, 1000)
        Scaled(base, pct, add, floorPct, cap) ==
            RoundDiv(clamp(base * (100000 + complexity * pct) + complexity * add * 100,
                           base * floorPct * 1000, cap * 100000), 100000)
    IN [nodesep |-> Scaled(ir.nodesep, 26, 6, 92, 320),
        ranksep |-> Scaled(ir.ranksep, 34, 8, 90, 420)]

\* ------------------------------------------------------------------------
\* layout.ts: node and side geometry
\* ------------------------------------------------------------------------
EDGE_SIDES == <<"T", "L", "B", "R">>

nodeCenter(node) == Pt(node.x + node.width \div 2, node.y + node.height \div 2)

sideNormal(side) ==
    IF side = "T" THEN Pt(0, -1)
    ELSE IF side = "L" THEN Pt(-1, 0)
    ELSE IF side = "B" THEN Pt(0, 1)
    ELSE Pt(1, 0)

sideAnchor(node, side) ==
    IF side = "T" THEN Pt(node.x + node.width \div 2, node.y)
    ELSE IF side = "L" THEN Pt(node.x, node.y + node.height \div 2)
    ELSE IF side = "B" THEN Pt(node.x + node.width \div 2, node.y + node.height)
    ELSE Pt(node.x + node.width, node.y + node.height \div 2)

\* a point moved by distance along a direction
Offset(anchor, normal, distance) ==
    Pt(anchor.x + normal.x * distance, anchor.y + normal.y * distance)

sideOutwardAnchor(node, side, distance) ==
    Offset(sideAnchor(node, side), sideNormal(side), distance)

orientation(ax, ay, bx, by, cx, cy) == (bx - ax) * (cy - ay) - (by - ay) * (cx - ax)

\* a, b: segments [x1, y1, x2, y2]
segmentsCross(a, b) ==
    LET o1 == orientation(a.x1, a.y1, a.x2, a.y2, b.x1, b.y1)
        o2 == orientation(a.x1, a.y1, a.x2, a.y2, b.x2, b.y2)
        o3 == orientation(b.x1, b.y1, b.x2, b.y2, a.x1, a.y1)
        o4 == orientation(b.x1, b.y1, b.x2, b.y2, a.x2, a.y2)
    IN IF o1 = 0 \/ o2 = 0 \/ o3 = 0 \/ o4 = 0 THEN FALSE
       ELSE ((o1 > 0) # (o2 > 0)) /\ ((o3 > 0) # (o4 > 0))

MinForward == 22

\* forward progress of an edge along the flow axis
ForwardProgress(from, to, rankdir) ==
    IF rankdir = "TB" THEN to.y - from.y
    ELSE IF rankdir = "BT" THEN from.y - to.y
    ELSE IF rankdir = "LR" THEN to.x - from.x
    ELSE from.x - to.x

\* directionalPenalty of layout.ts, in tenths: (minForward - forward) * 8.8
directionalPenalty(from, to, rankdir) ==
    LET forward == ForwardProgress(from, to, rankdir)
    IN IF forward >= MinForward THEN 0 ELSE (MinForward - forward) * 88

expandedOverlapArea(a, b, gap) ==
    LET ax0 == a.x - gap
        ay0 == a.y - gap
        ax1 == ax0 + a.width + gap * 2
        ay1 == ay0 + a.height + gap * 2
        bx0 == b.x - gap
        by0 == b.y - gap
        bx1 == bx0 + b.width + gap * 2
        by1 == by0 + b.height + gap * 2
        ox == Max2(0, Min2(ax1, bx1) - Max2(ax0, bx0))
        oy == Max2(0, Min2(ay1, by1) - Max2(ay0, by0))
    IN ox * oy

\* sum of expandedOverlapArea over all pairs of the nodes at idx
PairOverlapSum(nodes, idx, gap) ==
    LET n == Len(idx)
        Row(i) == SumSeq(ArrayOf([j \in 1..n |->
                                    IF j <= i THEN 0
                                    ELSE expandedOverlapArea(nodes[idx[i]], nodes[idx[j]], gap)]), 1)
    IN SumSeq(ArrayOf([i \in 1..n |-> Row(i)]), 1)

\* ------------------------------------------------------------------------
\* layout.ts: collision resolution
\* ------------------------------------------------------------------------
\* the push of one overlapping pair: overlap / 2 + 0.5
CollisionPush(overlap) == RoundDiv(overlap + 1, 2)

\* inner loop of resolveNodeCollisions for node idx[i]; the centre (acx, acy)
\* of a is read once before the loop, as in the code
CollidePair(nodes, idx, i, j, acx, acy, gap) ==
    LET a == nodes[idx[i]]
        b == nodes[idx[j]]
        bcx == b.x + b.width \div 2
        bcy == b.y + b.height \div 2
        needX == (a.width + b.width) \div 2 + gap
        needY == (a.height + b.height) \div 2 + gap
        dx == bcx - acx
        dy == bcy - acy
        overlapX == needX - Abs(dx)
        overlapY == needY - Abs(dy)
    IN IF overlapX <= 0 \/ overlapY <= 0 THEN nodes
       ELSE IF overlapX < overlapY
       THEN LET push == CollisionPush(overlapX)
                sign == IF dx >= 0 THEN 1 ELSE -1
            IN [nodes EXCEPT ![idx[i]].x = @ - push * sign, ![idx[j]].x = @ + push * sign]
       ELSE LET push == CollisionPush(overlapY)
                sign == IF dy >= 0 THEN 1 ELSE -1
            IN [nodes EXCEPT ![idx[i]].y = @ - push * sign, ![idx[j]].y = @ + push * sign]

\* the inner loop for j = lo, ..., hi in this order: the first half of the
\* range, then the second half on what the first left
RECURSIVE CollideRow(_, _, _, _, _, _, _, _)
CollideRow(nodes, idx, i, lo, hi, acx, acy, gap) ==
    IF lo > hi THEN nodes
    ELSE IF lo = hi THEN CollidePair(nodes, idx, i, lo, acx, acy, gap)
    ELSE CHOOSE out \in {CollideRow(half, idx, i, (lo + hi) \div 2 + 1, hi, acx, acy, gap) :
                            half \in {CollideRow(nodes, idx, i, lo, (lo + hi) \div 2, acx, acy, gap)}} :
             TRUE

\* the body of the outer loop for node idx[i]
CollideFrom(nodes, idx, i, a, gap) ==
    CollideRow(nodes, idx, i, i + 1, Len(idx), a.x + a.width \div 2, a.y + a.height \div 2, gap)

\* the outer loop for i = lo, ..., hi in this order
RECURSIVE CollidePass(_, _, _, _, _)
CollidePass(nodes, idx, lo, hi, gap) ==
    IF lo > hi THEN nodes
    ELSE IF lo = hi THEN CollideFrom(nodes, idx, lo, nodes[idx[lo]], gap)
    ELSE CHOOSE out \in {CollidePass(half, idx, (lo + hi) \div 2 + 1, hi, gap) :
                            half \in {CollidePass(nodes, idx, lo, (lo + hi) \div 2, gap)}} :
             TRUE

\* resolveNodeCollisions on the nodes at idx (the array the code is given)
RECURSIVE resolveNodeCollisions(_, _, _, _)
resolveNodeCollisions(nodes, idx, gap, passes) ==
    IF Len(idx) < 2 \/ passes <= 0 THEN nodes
    ELSE CHOOSE out \in {resolveNodeCollisions(pass, idx, gap, passes - 1) :
                            pass \in {CollidePass(nodes, idx, 1, Len(idx), gap)}} :
             TRUE

\* resolveAllNodeCollisions: [ir, moved]
resolveAllNodeCollisions(ir, gap, passes) ==
    LET idx == NonJunctionIdx(ir.nodes)
    IN IF Len(idx) < 2 THEN [ir |-> ir, moved |-> FALSE]
       ELSE LET before == PairOverlapSum(ir.nodes, idx, 0)
                nodes2 == resolveNodeCollisions(ir.nodes, idx, gap, passes)
                after == PairOverlapSum(nodes2, idx, 0)
            IN [ir |-> [ir EXCEPT !.nodes = nodes2], moved |-> after < before]

\* ------------------------------------------------------------------------
\* layout.ts: edge sides
\* ------------------------------------------------------------------------
\* number of entries of a load list equal to key (Map.get(key) ?? 0)
LoadOf(loads, key) == Cardinality({k \in DOMAIN loads : loads[k] = key})

IsTB(side) == side = "T" \/ side = "B"

\* whether the segment p0 -> p1 leaves p0 against the outward normal of side
AgainstNormal(side, p0, p1) ==
    sideNormal(side).x * (p1.x - p0.x) + sideNormal(side).y * (p1.y - p0.y) <= 0

\* Math.hypot of the anchors, in tenths
AnchorDistance(p0, p1) ==
    Isqrt(100 * ((p1.x - p0.x) * (p1.x - p0.x) + (p1.y - p0.y) * (p1.y - p0.y)))

SideChoiceTerms(fromNode, toNode, rankdir, startSide, endSide, sideLoad, pairLoad, p0, p1, dist) ==
    dist + RoundDiv(directionalPenalty(p0, p1, rankdir) * 84, 100)
    + (IF AgainstNormal(startSide, p0, p1) THEN 480 + RoundDiv(dist * 42, 100) ELSE 0)
    + (IF AgainstNormal(endSide, p1, p0) THEN 480 + RoundDiv(dist * 42, 100) ELSE 0)
    + (IF IsTB(startSide) # IsTB(endSide) THEN 50 ELSE 0)
    + LoadOf(sideLoad, <<fromNode.id, startSide>>) * 180
    + LoadOf(sideLoad, <<toNode.id, endSide>>) * 180
    + LoadOf(pairLoad, <<fromNode.id, toNode.id, startSide, endSide>>) * 860
    + LoadOf(pairLoad, <<toNode.id, fromNode.id, endSide, startSide>>) * 1340

SideChoiceBetween(fromNode, toNode, rankdir, startSide, endSide, sideLoad, pairLoad, p0, p1) ==
    SideChoiceTerms(fromNode, toNode, rankdir, startSide, endSide, sideLoad, pairLoad,
                    p0, p1, AnchorDistance(p0, p1))

\* cost of one (startSide, endSide) choice in chooseEdgeSides, in tenths
SideChoiceScore(fromNode, toNode, rankdir, startSide, endSide, sideLoad, pairLoad) ==
    SideChoiceBetween(fromNode, toNode, rankdir, startSide, endSide, sideLoad, pairLoad,
                      sideAnchor(fromNode, startSide), sideAnchor(toNode, endSide))

\* the running best of chooseEdgeSides: a strictly lower score replaces it, so
\* the first pair of the lowest score is returned
KeepLower(scores) ==
    CHOOSE k \in DOMAIN scores :
        \A j \in DOMAIN scores : scores[k] < scores[j] \/ (scores[k] = scores[j] /\ k <= j)

\* the k-th pair of the nested loops over startCandidates and endCandidates
SidePairAt(startCandidates, endCandidates, k) ==
    [startSide |-> startCandidates[((k - 1) \div Len(endCandidates)) + 1],
     endSide |-> endCandidates[((k - 1) % Len(endCandidates)) + 1]]

\* the score of every pair, in the order of the loops
SidePairScores(fromNode, toNode, rankdir, startCandidates, endCandidates, sideLoad, pairLoad) ==
    ArrayOf([k \in 1..(Len(startCandidates) * Len(endCandidates)) |->
                SideChoiceScore(fromNode, toNode, rankdir,
                                SidePairAt(startCandidates, endCandidates, k).startSide,
                                SidePairAt(startCandidates, endCandidates, k).endSide,
                                sideLoad, pairLoad)])

ChooseAmong(fromNode, toNode, rankdir, startCandidates, endCandidates, sideLoad, pairLoad) ==
    SidePairAt(startCandidates, endCandidates,
               KeepLower(SidePairScores(fromNode, toNode, rankdir, startCandidates,
                                        endCandidates, sideLoad, pairLoad)))

\* a choice among all sides, whatever sides are fixed
chooseEdgeSidesFree(fromNode, toNode, rankdir, fixedStartSide, fixedEndSide, sideLoad, pairLoad) ==
    ChooseAmong(fromNode, toNode, rankdir, EDGE_SIDES, EDGE_SIDES, sideLoad, pairLoad)

\* chooseEdgeSides; a fixed side is "" when undefined
chooseEdgeSides(fromNode, toNode, rankdir, fixedStartSide, fixedEndSide, sideLoad, pairLoad) ==
    ChooseAmong(fromNode, toNode, rankdir,
                IF fixedStartSide # "" THEN <<fixedStartSide>> ELSE EDGE_SIDES,
                IF fixedEndSide # "" THEN <<fixedEndSide>> ELSE EDGE_SIDES,
                sideLoad, pairLoad)

\* squared distance between the top-left corners of the endpoints (0 when one is missing)
EdgeSortDist(nodes, edge) ==
    LET f == IndexOfId(nodes, edge.from)
        t == IndexOfId(nodes, edge.to)
    IN IF f = 0 \/ t = 0 THEN 0
       ELSE (nodes[t].x - nodes[f].x) * (nodes[t].x - nodes[f].x)
            + (nodes[t].y - nodes[f].y) * (nodes[t].y - nodes[f].y)

\* order of the edges in inferEdgeSideHints: longest first, then by id
\* (edge.ord is the collation rank of the edge id)
SortedEdgeIdx(nodes, edges) ==
    LET Before(a, b) ==
            \/ EdgeSortDist(nodes, edges[a]) > EdgeSortDist(nodes, edges[b])
            \/ /\ EdgeSortDist(nodes, edges[a]) = EdgeSortDist(nodes, edges[b])
               /\ edges[a].ord < edges[b].ord
        RankOf(k) == Cardinality({m \in DOMAIN edges : Before(m, k)})
    IN ArrayOf([p \in DOMAIN edges |-> CHOOSE k \in DOMAIN edges : RankOf(k) = p - 1])

\* one iteration of the loop of inferEdgeSideHints; st = [edges, sideLoad, pairLoad]
\* the chosen sides stored on the edge and counted in the two load maps
RecordSides(st, e, fromId, toId, sides) ==
    [edges |-> [st.edges EXCEPT ![e].startSide = sides.startSide,
                                ![e].endSide = sides.endSide],
     sideLoad |-> st.sideLoad \o <<<<fromId, sides.startSide>>, <<toId, sides.endSide>>>>,
     pairLoad |-> Append(st.pairLoad, <<fromId, toId, sides.startSide, sides.endSide>>)]

\* a loop body that chooses the sides anew, whatever the edge has
InferBetweenAfresh(st, nodes, rankdir, e, f, t) ==
    IF f = 0 \/ t = 0 THEN st
    ELSE IF f = t
    THEN [st EXCEPT !.edges[e].startSide = "R", !.edges[e].endSide = "T"]
    ELSE IF nodes[f].isJunction \/ nodes[t].isJunction THEN st
    ELSE RecordSides(st, e, nodes[f].id, nodes[t].id,
                     chooseEdgeSides(nodes[f], nodes[t], rankdir, "", "",
                                     st.sideLoad, st.pairLoad))

\* body of the loop of inferEdgeSideHints for the edge at index e, whose
\* endpoints are the nodes at f and t (0: no such node)
InferBetween(st, nodes, rankdir, e, f, t) ==
    IF f = 0 \/ t = 0 THEN st
    ELSE IF f = t
    THEN [st EXCEPT !.edges[e].startSide = IF @ = "" THEN "R" ELSE @,
                    !.edges[e].endSide = IF @ = "" THEN "T" ELSE @]
    ELSE IF nodes[f].isJunction \/ nodes[t].isJunction THEN st
    ELSE RecordSides(st, e, nodes[f].id, nodes[t].id,
                     chooseEdgeSides(nodes[f], nodes[t], rankdir, st.edges[e].startSide,
                                     st.edges[e].endSide, st.sideLoad, st.pairLoad))

InferOne(st, nodes, rankdir, e) ==
    InferBetween(st, nodes, rankdir, e,
                 IndexOfId(nodes, st.edges[e].from), IndexOfId(nodes, st.edges[e].to))

\* the loop over the sorted edges, from the k-th on
RECURSIVE InferFrom(_, _, _, _, _)
InferFrom(st, nodes, rankdir, order, k) ==
    IF k > Len(order) THEN st
    ELSE CHOOSE out \in {InferFrom(next, nodes, rankdir, order, k + 1) :
                            next \in {InferOne(st, nodes, rankdir, order[k])}} : TRUE

InferInOrder(ir, rankdir, order) ==
    [ir EXCEPT !.edges = InferFrom([edges |-> ir.edges, sideLoad |-> <<>>, pairLoad |-> <<>>],
                                   ir.nodes, rankdir, order, 1).edges]

inferEdgeSideHints(ir, rankdir) == InferInOrder(ir, rankdir, SortedEdgeIdx(ir.nodes, ir.edges))

\* ------------------------------------------------------------------------
\* layout.ts: routes
\* ------------------------------------------------------------------------
\* first pass of simplifyPolyline: drop a point equal to the one kept before it
KeepDistinct(kept, point) ==
    IF kept = <<>> \/ kept[Len(kept)] # point THEN Append(kept, point) ELSE kept

Dedupe(points) == FoldFrom(KeepDistinct, <<>>, points, 1, Len(points))

\* the last point kept so far
LastOf(out) == out[Len(out)]

\* second pass: b is kept when it is not on the line from the last point kept to c
KeepCorner(out, b, c) ==
    IF Abs((b.x - LastOf(out).x) * (c.y - LastOf(out).y)
           - (b.y - LastOf(out).y) * (c.x - LastOf(out).x)) > 0
    THEN Append(out, b)
    ELSE out

KeepCorners(deduped) ==
    Append(FoldFrom(LAMBDA out, i : KeepCorner(out, deduped[i], deduped[i + 1]),
                    <<deduped[1]>>, Upto(Len(deduped) - 1), 2, Len(deduped) - 1),
           deduped[Len(deduped)])

SimplifyDeduped(deduped) == IF Len(deduped) <= 2 THEN deduped ELSE KeepCorners(deduped)

simplifyPolyline(points) == IF Len(points) <= 2 THEN points ELSE SimplifyDeduped(Dedupe(points))

SegLen(p, q) == Hypot(q.x - p.x, q.y - p.y)

SegmentLengths(points) == ArrayOf([i \in 1..(Len(points) - 1) |-> SegLen(points[i], points[i + 1])])

polylineLength(points) ==
    IF Len(points) < 2 THEN 0 ELSE SumSeq(SegmentLengths(points), 1)

LabelOffset == 14

\* length walked before segment i
WalkedBefore(lengths, i) == SumSeq(SubSeq(lengths, 1, i - 1), 1)

\* the segments that can hold the midpoint: length > 0 and walked + segment
\* not below total / 2; the loop returns at the first of them
MidSegments(lengths, total) ==
    {i \in DOMAIN lengths : lengths[i] > 0 /\ 2 * (WalkedBefore(lengths, i) + lengths[i]) >= total}

\* the point at t = tn / td of the segment p0-p1, moved LabelOffset along its normal
LabelAlong(p0, p1, segment, tn, td) ==
    <<Pt(p0.x + RoundDiv((p1.x - p0.x) * tn, td) + RoundDiv(-(p1.y - p0.y) * LabelOffset, segment),
         p0.y + RoundDiv((p1.y - p0.y) * tn, td) + RoundDiv((p1.x - p0.x) * LabelOffset, segment))>>

\* t = (total / 2 - walked) / segment as the fraction (total - 2 walked) / (2 segment)
LabelOnSegment(points, lengths, total, i) ==
    LabelAlong(points[i], points[i + 1], lengths[i],
               total - 2 * WalkedBefore(lengths, i), 2 * lengths[i])

LabelFrom(points, lengths, total, hits) ==
    IF total <= 0
    THEN <<Pt((points[1].x + points[Len(points)].x) \div 2,
              (points[1].y + points[Len(points)].y) \div 2)>>
    ELSE IF hits = {} THEN <<Pt(points[1].x, points[1].y)>>
    ELSE LabelOnSegment(points, lengths, total, CHOOSE h \in hits : \A g \in hits : h <= g)

LabelWith(points, lengths, total) ==
    LabelFrom(points, lengths, total, MidSegments(lengths, total))

LabelOver(points, lengths) == LabelWith(points, lengths, SumSeq(lengths, 1))

\* fallbackLabelPosition: <<>> when undefined, else <<point>>
fallbackLabelPosition(points) ==
    IF Len(points) < 2 THEN <<>> ELSE LabelOver(points, SegmentLengths(points))

LoopExtent(node) == Max2(30, Min2(160, MulQ(Max2(node.width, node.height), 95, 100)))

StubLength(node) == Max2(12, Min2(56, MulQ(Min2(node.width, node.height), 32, 100)))

IsHorizontalSide(side) == side = "L" \/ side = "R"

\* the edge with its new points, and a label position when it has a label
Routed(edge, points) ==
    [edge EXCEPT !.points = points,
                 !.labelPosition = IF edge.labelChars > 0
                                   THEN fallbackLabelPosition(points)
                                   ELSE <<>>]

\* self-loop: the corner joining the two outward points
LoopBridge(startSide, startOut, endOut) ==
    IF IsHorizontalSide(startSide) THEN Pt(startOut.x, endOut.y) ELSE Pt(endOut.x, startOut.y)

LoopPoints(start, end, startSide, startOut, endOut) ==
    <<start, startOut, LoopBridge(startSide, startOut, endOut), endOut, end>>

\* the points between the two stubs of an edge between distinct nodes
MiddlePoints(startIsHorizontal, endIsHorizontal, startOut, endOut) ==
    IF startIsHorizontal = endIsHorizontal
    THEN IF startIsHorizontal
         THEN <<Pt((startOut.x + endOut.x) \div 2, startOut.y),
                Pt((startOut.x + endOut.x) \div 2, endOut.y)>>
         ELSE <<Pt(startOut.x, (startOut.y + endOut.y) \div 2),
                Pt(endOut.x, (startOut.y + endOut.y) \div 2)>>
    ELSE IF startIsHorizontal
    THEN <<Pt(endOut.x, startOut.y)>>
    ELSE <<Pt(startOut.x, endOut.y)>>

StubPoints(start, end, startSide, endSide, startOut, endOut) ==
    <<start, startOut>>
        \o MiddlePoints(IsHorizontalSide(startSide), IsHorizontalSide(endSide), startOut, endOut)
        \o <<endOut, end>>

RoutePoints(from, to, isLoop, startSide, endSide) ==
    IF isLoop
    THEN LoopPoints(sideAnchor(from, startSide), sideAnchor(to, endSide), startSide,
                    sideOutwardAnchor(from, startSide, LoopExtent(from)),
                    sideOutwardAnchor(to, endSide, LoopExtent(from)))
    ELSE StubPoints(sideAnchor(from, startSide), sideAnchor(to, endSide), startSide, endSide,
                    sideOutwardAnchor(from, startSide, StubLength(from)),
                    sideOutwardAnchor(to, endSide, StubLength(to)))

RouteBetween(nodes, edge, f, t) ==
    IF f = 0 \/ t = 0 THEN [edge EXCEPT !.points = <<>>, !.labelPosition = <<>>]
    ELSE Routed(edge, simplifyPolyline(
                          RoutePoints(nodes[f], nodes[t], f = t,
                                      IF edge.startSide = "" THEN "R" ELSE edge.startSide,
                                      IF edge.endSide = "" THEN "L" ELSE edge.endSide)))

\* a lookup that falls back to the first node when the id is unknown
RouteOfFirstNode(nodes, edge) ==
    RouteBetween(nodes, edge, Max2(1, IndexOfId(nodes, edge.from)), Max2(1, IndexOfId(nodes, edge.to)))

\* route of one edge in rebuildEdgeRoutesFromSideAnchors
RouteOf(nodes, edge) ==
    RouteBetween(nodes, edge, IndexOfId(nodes, edge.from), IndexOfId(nodes, edge.to))

rebuildEdgeRoutesFromSideAnchors(ir) ==
    [ir EXCEPT !.edges = ArrayOf([k \in DOMAIN ir.edges |-> RouteOf(ir.nodes, ir.edges[k])])]

\* inferEdgeSideHints(ir, rankdir); rebuildEdgeRoutesFromSideAnchors(ir)
Reroute(ir, rankdir) ==
    CHOOSE out \in {rebuildEdgeRoutesFromSideAnchors(hinted) :
                    hinted \in {inferEdgeSideHints(ir, rankdir)}} : TRUE

\* the same, followed by recomputeSubgraphBounds(ir); recomputeBounds(ir)
RerouteAndMeasure(ir, rankdir) ==
    CHOOSE out \in {Remeasure(routed) : routed \in {Reroute(ir, rankdir)}} : TRUE

\* ------------------------------------------------------------------------
\* layout.ts: snapshots
\* ------------------------------------------------------------------------
captureLayoutState(ir) ==
    [nodePositions |-> ArrayOf([k \in DOMAIN ir.nodes |-> Pt(ir.nodes[k].x, ir.nodes[k].y)]),
     edgeRoutes |-> ArrayOf([k \in DOMAIN ir.edges |->
                                [points |-> ir.edges[k].points,
                                 labelPosition |-> ir.edges[k].labelPosition]]),
     edgeSides |-> ArrayOf([k \in DOMAIN ir.edges |->
                               [startSide |-> ir.edges[k].startSide, endSide |-> ir.edges[k].endSide]]),
     subgraphBounds |-> ArrayOf([k \in DOMAIN ir.subgraphs |->
                                    [x |-> ir.subgraphs[k].x, y |-> ir.subgraphs[k].y,
                                     width |-> ir.subgraphs[k].width,
                                     height |-> ir.subgraphs[k].height]]),
     bounds |-> ir.bounds]

\* a restore that also writes the width
RestoreNodeResized(node, pos) == [node EXCEPT !.x = pos.x, !.y = pos.y, !.width = node.height]

RestoreNode(node, pos) == [node EXCEPT !.x = pos.x, !.y = pos.y]

\* a restore of the sides that leaves the route of the last candidate in place
RestoreEdgeSidesOnly(edge, route, sides) ==
    [edge EXCEPT !.startSide = sides.startSide, !.endSide = sides.endSide]

RestoreEdge(edge, route, sides) ==
    [edge EXCEPT !.points = route.points, !.labelPosition = route.labelPosition,
                 !.startSide = sides.startSide, !.endSide = sides.endSide]

RestoreSubgraph(subgraph, b) ==
    [subgraph EXCEPT !.x = b.x, !.y = b.y, !.width = b.width, !.height = b.height]

restoreLayoutState(ir, state) ==
    [ir EXCEPT !.nodes = ArrayOf([k \in DOMAIN ir.nodes |->
                                     RestoreNode(ir.nodes[k], state.nodePositions[k])]),
               !.edges = ArrayOf([k \in DOMAIN ir.edges |->
                                     RestoreEdge(ir.edges[k], state.edgeRoutes[k], state.edgeSides[k])]),
               !.subgraphs = ArrayOf([k \in DOMAIN ir.subgraphs |->
                                         RestoreSubgraph(ir.subgraphs[k], state.subgraphBounds[k])]),
               !.bounds = state.bounds]

\* ------------------------------------------------------------------------
\* layout.ts: subgraph separation, compaction
\* ------------------------------------------------------------------------
\* overlap of the intervals [a0, a0 + aLen] and [b0, b0 + bLen]
OverlapAlong(a0, aLen, b0, bLen) == Max2(0, Min2(a0 + aLen, b0 + bLen) - Max2(a0, b0))

OverlapOf(overlapX, overlapY) ==
    [overlapX |-> overlapX, overlapY |-> overlapY, area |-> overlapX * overlapY]

overlapSize(a, b) ==
    OverlapOf(OverlapAlong(a.x, a.width, b.x, b.width), OverlapAlong(a.y, a.height, b.y, b.height))

IsTopLevel(sgs, sg) ==
    sg.parentId = "" \/ IndexOfId(sgs, sg.parentId) = 0 \/ sg.parentId = sg.id

TopLevelIdx(sgs) == FilterIdx(sgs, LAMBDA sg : IsTopLevel(sgs, sg))

\* findTopLevel of buildTopLevelSubgraphMembers: "" when undefined
RECURSIVE findTopLevel(_, _, _)
\* one step of the walk, k the index of the current subgraph (0: unknown id)
FindTopLevelFrom(sgs, current, visited, k) ==
    IF k # 0 /\ IsTopLevel(sgs, sgs[k]) THEN current
    ELSE IF k = 0 \/ sgs[k].parentId = "" \/ sgs[k].parentId = current THEN ""
    ELSE findTopLevel(sgs, sgs[k].parentId, visited \cup {current})

findTopLevel(sgs, current, visited) ==
    IF current = "" \/ current \in visited THEN ""
    ELSE FindTopLevelFrom(sgs, current, visited, IndexOfId(sgs, current))

\* the nodes that name the top-level subgraph itself, without those of the
\* subgraphs nested in it
TopLevelMembersDirect(ir, topId) ==
    {ir.nodes[k].id : k \in {m \in DOMAIN ir.nodes : ir.nodes[m].subgraphId = topId}}

\* buildTopLevelSubgraphMembers: the member node ids of one top-level subgraph
TopLevelMembers(ir, topId) ==
    {ir.nodes[k].id : k \in {m \in DOMAIN ir.nodes :
                               findTopLevel(ir.subgraphs, ir.nodes[m].subgraphId, {}) = topId}}

\* translateNodeSet: [nodes, moved]
translateNodeSet(nodes, nodeIds, dx, dy) ==
    IF dx = 0 /\ dy = 0 THEN [nodes |-> nodes, moved |-> FALSE]
    ELSE [nodes |-> ArrayOf([k \in DOMAIN nodes |->
                                IF nodes[k].id \in nodeIds
                                THEN [nodes[k] EXCEPT !.x = @ + dx, !.y = @ + dy]
                                ELSE nodes[k]]),
          moved |-> \E k \in DOMAIN nodes : nodes[k].id \in nodeIds]

SeparationGap(cfg) == clamp(MulQ(Min2(cfg.nodesep, cfg.ranksep), 32, 100), 12, 34)

\* the pair loop of one pass of enforceTopLevelSubgraphSeparation; the rectangles
\* are those of the pass start (sgs), the nodes move as the loop goes
\* the push that separates two overlapping top-level rectangles: along x when
\* the horizontal overlap is the smaller one, else along y; a moves by (dx, dy)
SeparationPush(a, b, overlap, targetGap) ==
    IF overlap.overlapX < overlap.overlapY
    THEN [dx |-> (IF 2 * a.x + a.width <= 2 * b.x + b.width THEN -1 ELSE 1)
                 * RoundDiv(overlap.overlapX + targetGap, 2),
          dy |-> 0]
    ELSE [dx |-> 0,
          dy |-> (IF 2 * a.y + a.height <= 2 * b.y + b.height THEN -1 ELSE 1)
                 * RoundDiv(overlap.overlapY + targetGap, 2)]

MovedEither(movedB, moved) == [nodes |-> movedB.nodes, moved |-> moved \/ movedB.moved]

TranslateOther(movedA, moved, bMembers, push) ==
    MovedEither(translateNodeSet(movedA.nodes, bMembers, -push.dx, -push.dy),
                moved \/ movedA.moved)

TranslateBoth(st, aMembers, bMembers, push) ==
    TranslateOther(translateNodeSet(st.nodes, aMembers, push.dx, push.dy), st.moved,
                   bMembers, push)

\* a pair loop that separates only along x
SeparatePairAlongX(st, a, b, overlap, aMembers, bMembers, targetGap) ==
    IF overlap.overlapX <= 0 \/ overlap.overlapY <= 0 \/ aMembers = {} \/ bMembers = {}
       \/ overlap.overlapX >= overlap.overlapY
    THEN st
    ELSE TranslateBoth(st, aMembers, bMembers, SeparationPush(a, b, overlap, targetGap))

\* body of the pair loop
SeparatePair(st, a, b, overlap, aMembers, bMembers, targetGap) ==
    IF overlap.overlapX <= 0 \/ overlap.overlapY <= 0 \/ aMembers = {} \/ bMembers = {}
    THEN st
    ELSE TranslateBoth(st, aMembers, bMembers, SeparationPush(a, b, overlap, targetGap))

\* the pair loop of one pass of enforceTopLevelSubgraphSeparation; the rectangles
\* are those of the pass start (sgs), the nodes move as the loop goes
RECURSIVE SeparatePairs(_, _, _, _, _, _, _)
SeparatePairs(ir, sgs, top, i, j, targetGap, st) ==
    IF i > Len(top) THEN st
    ELSE IF j > Len(top) THEN SeparatePairs(ir, sgs, top, i + 1, i + 2, targetGap, st)
    ELSE SeparatePairs(ir, sgs, top, i, j + 1, targetGap,
                       SeparatePair(st, sgs[top[i]], sgs[top[j]],
                                    overlapSize(sgs[top[i]], sgs[top[j]]),
                                    TopLevelMembers(ir, sgs[top[i]].id),
                                    TopLevelMembers(ir, sgs[top[j]].id), targetGap))

RECURSIVE SeparationPasses(_, _, _, _, _)
\* end of one pass: stop when nothing moved, else new bounds and the next pass
AfterSeparationPass(ir, top, targetGap, passes, moved, st) ==
    IF ~st.moved THEN [ir |-> ir, moved |-> moved, quiet |-> TRUE]
    ELSE SeparationPasses(Remeasure([ir EXCEPT !.nodes = st.nodes]),
                          top, targetGap, passes - 1, TRUE)

SeparationPasses(ir, top, targetGap, passes, moved) ==
    IF passes <= 0 THEN [ir |-> ir, moved |-> moved, quiet |-> FALSE]
    ELSE AfterSeparationPass(ir, top, targetGap, passes, moved,
                             SeparatePairs(ir, ir.subgraphs, top, 1, 2, targetGap,
                                           [nodes |-> ir.nodes, moved |-> FALSE]))

\* enforceTopLevelSubgraphSeparation: [ir, moved], and quiet: whether it
\* stopped at the break of a pass that moved nothing
enforceTopLevelSubgraphSeparation(ir, cfg, passes) ==
    IF Len(ir.subgraphs) < 2 \/ Len(TopLevelIdx(ir.subgraphs)) < 2
    THEN [ir |-> ir, moved |-> FALSE, quiet |-> FALSE]
    ELSE SeparationPasses(Remeasure(ir), TopLevelIdx(ir.subgraphs), SeparationGap(cfg),
                          passes, FALSE)

CollisionGap(cfg) == Max2(10, MulQ(Min2(cfg.nodesep, cfg.ranksep), 18, 100))

SpatialGap(cfg) == Max2(8, MulQ(Min2(cfg.nodesep, cfg.ranksep), 16, 100))

RECURSIVE enforceSpatialConstraintsFrom(_, _, _, _)
\* end of one pass: stop when neither step moved anything
AfterSpatialPass(cfg, passes, moved, movedByCollision, movedBySubgraph) ==
    IF ~movedByCollision /\ ~movedBySubgraph.moved
    THEN [ir |-> movedBySubgraph.ir, moved |-> moved]
    ELSE enforceSpatialConstraintsFrom(movedBySubgraph.ir, cfg, passes - 1, TRUE)

SeparateAfterCollisions(cfg, passes, moved, col) ==
    AfterSpatialPass(cfg, passes, moved, col.moved,
                     enforceTopLevelSubgraphSeparation(col.ir, cfg, 4))

enforceSpatialConstraintsFrom(ir, cfg, passes, moved) ==
    IF passes <= 0 THEN [ir |-> ir, moved |-> moved]
    ELSE SeparateAfterCollisions(cfg, passes, moved,
                                 resolveAllNodeCollisions(ir, SpatialGap(cfg), 3))

\* enforceSpatialConstraints: [ir, moved]
enforceSpatialConstraints(ir, cfg, passes) == enforceSpatialConstraintsFrom(ir, cfg, passes, FALSE)

NodeAreaSum(nodes, idx) ==
    SumSeq(ArrayOf([k \in DOMAIN idx |-> nodes[idx[k]].width * nodes[idx[k]].height]), 1)

\* nodeArea / max(1, bounds area), in 1/10000
Occupancy(ir) ==
    RoundDiv(NodeAreaSum(ir.nodes, NonJunctionIdx(ir.nodes)) * 10000,
             Max2(1, ir.bounds.width * ir.bounds.height))

\* targetOccupancy of compactLayoutDensity, in 1/10000
TargetOccupancy(ir) ==
    LET n == Len(NonJunctionIdx(ir.nodes))
        nodeLoad == clamp(RoundDiv((n - 10) * 1000, 42), 0, 1000)
        edgeLoad == clamp(RoundDiv((Len(ir.edges) - Max2(6, n)) * 10000, Max2(140, n * 17)),
                          0, 1000)
    IN 1120 + RoundDiv((nodeLoad * 45 + edgeLoad * 55) * 3, 1000)

\* the squeeze of one node towards the centre of the bounds
SqueezeNode(node, bounds, rankdir) ==
    LET sumX == bounds.minX + bounds.maxX
        sumY == bounds.minY + bounds.maxY
        ox == 2 * node.x + node.width - sumX
        oy == 2 * node.y + node.height - sumY
        dx == IF IsVertical(rankdir) THEN -RoundDiv(ox * 32, 1000) ELSE -RoundDiv(ox * 24, 1000)
        dy == IF IsVertical(rankdir) THEN -RoundDiv(oy * 24, 1000) ELSE -RoundDiv(oy * 32, 1000)
    IN IF node.isJunction THEN node ELSE [node EXCEPT !.x = @ + dx, !.y = @ + dy]

\* compactLayoutDensity: [ir, moved]
RECURSIVE CompactPasses(_, _, _, _, _)
CompactPasses(ir, rankdir, cfg, passes, moved) ==
    IF passes <= 0 THEN [ir |-> ir, moved |-> moved]
    ELSE LET ir1 == recomputeBounds(recomputeSubgraphBounds(ir))
         IN IF Occupancy(ir1) >= TargetOccupancy(ir1) THEN [ir |-> ir1, moved |-> moved]
            ELSE LET nodes2 == ArrayOf([k \in DOMAIN ir1.nodes |->
                                           SqueezeNode(ir1.nodes[k], ir1.bounds, rankdir)])
                 IN IF nodes2 = ir1.nodes THEN [ir |-> ir1, moved |-> moved]
                    ELSE LET ir2 == resolveAllNodeCollisions([ir1 EXCEPT !.nodes = nodes2],
                                                             SpatialGap(cfg), 4).ir
                             ir3 == enforceTopLevelSubgraphSeparation(ir2, cfg, 5).ir
                         IN CompactPasses(ir3, rankdir, cfg, passes - 1, TRUE)

compactLayoutDensity(ir, rankdir, cfg, passes) ==
    IF Len(NonJunctionIdx(ir.nodes)) <= 1 THEN [ir |-> ir, moved |-> FALSE]
    ELSE CompactPasses(ir, rankdir, cfg, passes, FALSE)

\* ------------------------------------------------------------------------
\* layout.ts: scoring
\* ------------------------------------------------------------------------
\* area per quadrant <<q0, q1, q2, q3>> of the nodes at idx around the centre of bounds
QuadrantAreas(nodes, idx, bounds) ==
    LET sumX == bounds.minX + bounds.maxX
        sumY == bounds.minY + bounds.maxY
        QuadrantOf(n) == (IF 2 * n.y + n.height >= sumY THEN 2 ELSE 0)
                         + (IF 2 * n.x + n.width >= sumX THEN 1 ELSE 0)
    IN ArrayOf([q \in 1..4 |->
                   SumSeq(ArrayOf([k \in DOMAIN idx |->
                                      IF QuadrantOf(nodes[idx[k]]) = q - 1
                                      THEN nodes[idx[k]].width * nodes[idx[k]].height ELSE 0]), 1)])

\* (max - min) / mean of the quadrant areas, in thousandths
ImbalanceOf(areas) ==
    LET total == SumSeq(areas, 1)
    IN IF total <= 0 THEN 0
       ELSE RoundDiv((MaxSeq(areas, 1) - MinSeq(areas, 1)) * 4000, total)

quadrantImbalanceOfNodeArea(ir) ==
    LET idx == NonJunctionIdx(ir.nodes)
    IN IF Len(idx) = 0 THEN 0 ELSE ImbalanceOf(QuadrantAreas(ir.nodes, idx, ir.bounds))

pointInExpandedNode2(sumX, sumY, node, padding) ==
    /\ sumX >= 2 * (node.x - padding)
    /\ sumX <= 2 * (node.x + node.width + padding)
    /\ sumY >= 2 * (node.y - padding)
    /\ sumY <= 2 * (node.y + node.height + padding)

\* collectEdgeSegments: [edge (index), x1, y1, x2, y2] of every non-degenerate segment
AppendSegment(acc, k, pts, i) ==
    IF pts[i] = pts[i + 1] THEN acc
    ELSE Append(acc, [edge |-> k, x1 |-> pts[i].x, y1 |-> pts[i].y,
                      x2 |-> pts[i + 1].x, y2 |-> pts[i + 1].y])

AppendSegmentsOf(acc, k, pts) ==
    FoldFrom(LAMBDA segs, i : AppendSegment(segs, k, pts, i),
             acc, Upto(Len(pts) - 1), 1, Len(pts) - 1)

collectEdgeSegments(ir) ==
    FoldFrom(LAMBDA acc, k : AppendSegmentsOf(acc, k, ir.edges[k].points),
             <<>>, Upto(Len(ir.edges)), 1, Len(ir.edges))

CrossingCount(ir) ==
    LET segments == collectEdgeSegments(ir)
        Shares(a, b) ==
            LET ea == ir.edges[a.edge]
                eb == ir.edges[b.edge]
            IN \/ ea.from = eb.from \/ ea.from = eb.to \/ ea.to = eb.from \/ ea.to = eb.to
               \/ ea.id = eb.id
    IN Cardinality({pair \in (DOMAIN segments) \X (DOMAIN segments) :
                       /\ pair[1] < pair[2]
                       /\ ~Shares(segments[pair[1]], segments[pair[2]])
                       /\ segmentsCross(segments[pair[1]], segments[pair[2]])})

\* segments of an edge whose midpoint lies in a node other than the endpoints
EdgeNodeHits(ir, edge, idx) ==
    LET pts == edge.points
    IN Cardinality({i \in 1..(Len(pts) - 1) :
                       \E k \in DOMAIN idx :
                           /\ ir.nodes[idx[k]].id # edge.from
                           /\ ir.nodes[idx[k]].id # edge.to
                           /\ pointInExpandedNode2(pts[i].x + pts[i + 1].x, pts[i].y + pts[i + 1].y,
                                                   ir.nodes[idx[k]], 4)})

SubgraphOverlapSum(sgs) ==
    LET n == Len(sgs)
        Row(i) == SumSeq(ArrayOf([j \in 1..n |->
                                    IF j <= i THEN 0 ELSE overlapSize(sgs[i], sgs[j]).area]), 1)
    IN SumSeq(ArrayOf([i \in 1..n |-> Row(i)]), 1)

ScoreOverlapGap(cfg) == Max2(7, Min2(24, MulQ(cfg.nodesep, 20, 100)))

\* per-edge terms of scoreLayoutQuality, in hundredths
EdgeScore(ir, edge, idx, rankdir) ==
    IF Len(edge.points) < 2 THEN 0
    ELSE LET f == IndexOfId(ir.nodes, edge.from)
             t == IndexOfId(ir.nodes, edge.to)
             backward == IF f # 0 /\ t # 0 /\ f # t
                         THEN directionalPenalty(nodeCenter(ir.nodes[f]), nodeCenter(ir.nodes[t]),
                                                 rankdir)
                         ELSE 0
         IN polylineLength(edge.points) * 11
            + Max2(0, Len(edge.points) - 2) * 2200
            + backward * 44
            + EdgeNodeHits(ir, edge, idx) * 62000

\* scoreLayoutQuality, in hundredths
scoreLayoutQuality(ir, rankdir, cfg) ==
    LET idx == NonJunctionIdx(ir.nodes)
        nodeOverlapPenalty == PairOverlapSum(ir.nodes, idx, ScoreOverlapGap(cfg))
        edgeTerms == SumSeq(ArrayOf([k \in DOMAIN ir.edges |-> EdgeScore(ir, ir.edges[k], idx, rankdir)]), 1)
        occupancyRatio == RoundDiv(NodeAreaSum(ir.nodes, idx) * 1000,
                                   Max2(1, ir.bounds.width * ir.bounds.height))
        overcrowdedPenalty == Max2(0, occupancyRatio - 200) * 900
        sparsePenalty == Max2(0, 120 - occupancyRatio) * 1200
    IN nodeOverlapPenalty * 920
       + SubgraphOverlapSum(ir.subgraphs) * 2200
       + CrossingCount(ir) * 128000
       + edgeTerms
       + overcrowdedPenalty
       + sparsePenalty
       + quadrantImbalanceOfNodeArea(ir) * 220

\* ------------------------------------------------------------------------
\* layout.ts: deterministic jitter
\* ------------------------------------------------------------------------
\* bitwise exclusive or of two bytes
XorBits(a, b, bits) ==
    FoldFrom(LAMBDA acc, w : IF ((a \div w) % 2) # ((b \div w) % 2) THEN acc + w ELSE acc,
             0, ArrayOf([k \in 1..bits |-> 2 ^ (k - 1)]), 1, bits)

\* one step of FNV-1a on a 32-bit hash kept as [hi, lo] 16-bit halves:
\* hash ^= code; hash = Math.imul(hash, 16777619)   (16777619 = 2^24 + 403)
HashStep(hash, code) ==
    LET lo == (hash.lo \div 256) * 256 + XorBits(hash.lo % 256, code, 8)
        product == lo * 403
    IN [hi |-> (hash.hi * 403 + (product \div 65536) + (lo % 256) * 256) % 65536,
        lo |-> product % 65536]

\* hashString32 of a string given by its char codes; 2166136261 = 33052 * 65536 + 40389
hashString32(codes) == FoldFrom(HashStep, [hi |-> 33052, lo |-> 40389], codes, 1, Len(codes))

\* char codes of the node ids of the inputs
CharCodes(id) ==
    CASE id = "A" -> <<65>> [] id = "B" -> <<66>> [] id = "C" -> <<67>> [] id = "D" -> <<68>>
      [] id = "E" -> <<69>> [] id = "F" -> <<70>> [] id = "G" -> <<71>> [] id = "H" -> <<72>>
      [] id = "I" -> <<73>> [] id = "M" -> <<77>> [] id = "S" -> <<83>>
      [] id = "J1" -> <<74, 49>> [] id = "J2" -> <<74, 50>>
      [] OTHER -> <<63>>

\* char codes of a number 0..99 printed in decimal
DecimalCodes(n) == IF n < 10 THEN <<48 + n>> ELSE <<48 + (n \div 10), 48 + (n % 10)>>

\* deterministicNoise, in 1/10000: hash of "seed:salt:nodeId" mod 20001, minus 10000
deterministicNoise(nodeId, seed, salt) ==
    LET hash == hashString32(DecimalCodes(seed) \o <<58>> \o DecimalCodes(salt) \o <<58>>
                             \o CharCodes(nodeId))
    IN ((hash.hi * 5533 + hash.lo) % 20001) - 10000

applyDeterministicJitter(ir, pinnedNodeIds, rankdir, seed, cfg) ==
    LET baseAmplitude == clamp(cfg.nodesep * 24, 700, 4200)
        minorAmplitude == clamp(RoundDiv(baseAmplitude * 58, 100), 400, 2000)
        Jitter(node) ==
            LET main == RoundDiv(deterministicNoise(node.id, seed, 17) * baseAmplitude, 1000000)
                minor == RoundDiv(deterministicNoise(node.id, seed, 53) * minorAmplitude, 1000000)
            IN IF node.isJunction \/ node.id \in pinnedNodeIds THEN node
               ELSE IF IsVertical(rankdir)
               THEN [node EXCEPT !.x = @ + main, !.y = @ + minor]
               ELSE [node EXCEPT !.x = @ + minor, !.y = @ + main]
    IN [ir EXCEPT !.nodes = ArrayOf([k \in DOMAIN ir.nodes |-> Jitter(ir.nodes[k])])]

\* ------------------------------------------------------------------------
\* layout.ts: junction side placement
\* ------------------------------------------------------------------------
\* relationFromSides: "" when undefined
relationFromSides(nodeSide, junctionSide) ==
    IF nodeSide = "R" /\ junctionSide = "L" THEN "left"
    ELSE IF nodeSide = "L" /\ junctionSide = "R" THEN "right"
    ELSE IF nodeSide = "B" /\ junctionSide = "T" THEN "up"
    ELSE IF nodeSide = "T" /\ junctionSide = "B" THEN "down"
    ELSE IF junctionSide = "L" THEN "left"
    ELSE IF junctionSide = "R" THEN "right"
    ELSE IF junctionSide = "T" THEN "up"
    ELSE IF junctionSide = "B" THEN "down"
    ELSE ""

JunctionGap(other) == Max2(42, Min2(150, MulQ(Max2(other.width, other.height), 72, 100)))

\* the body of the edge loop of enforceJunctionSidePlacement; st = [nodes, moved]
PlaceByJunction(st, j, edge) ==
    LET junction == st.nodes[j]
        isFrom == edge.from = junction.id
        isTo == ~isFrom /\ edge.to = junction.id
        otherId == IF isFrom THEN edge.to ELSE edge.from
        otherSide == IF isFrom THEN edge.endSide ELSE edge.startSide
        junctionSide == IF isFrom THEN edge.startSide ELSE edge.endSide
        o == IndexOfId(st.nodes, otherId)
        relation == relationFromSides(otherSide, junctionSide)
    IN IF ~(isFrom \/ isTo) \/ o = 0 THEN st
       ELSE IF st.nodes[o].isJunction \/ relation = "" THEN st
       ELSE LET other == st.nodes[o]
                gap == JunctionGap(other)
                junctionCx == junction.x + junction.width \div 2
                junctionCy == junction.y + junction.height \div 2
                pos == IF relation = "left"
                       THEN Pt(junction.x - gap - other.width, junctionCy - other.height \div 2)
                       ELSE IF relation = "right"
                       THEN Pt(junction.x + junction.width + gap, junctionCy - other.height \div 2)
                       ELSE IF relation = "up"
                       THEN Pt(junctionCx - other.width \div 2, junction.y - gap - other.height)
                       ELSE Pt(junctionCx - other.width \div 2, junction.y + junction.height + gap)
            IN [nodes |-> [st.nodes EXCEPT ![o].x = pos.x, ![o].y = pos.y],
                moved |-> st.moved \cup {other.id}]

\* enforceJunctionSidePlacement: [ir, moved (set of node ids)]
enforceJunctionSidePlacement(ir) ==
    LET junctions == FilterIdx(ir.nodes, LAMBDA n : n.isJunction)
        ne == Len(ir.edges)
        total == Len(junctions) * ne
    IN CHOOSE out \in
           {[ir |-> [ir EXCEPT !.nodes = placed.nodes], moved |-> placed.moved] :
            placed \in {FoldFrom(LAMBDA st, k : PlaceByJunction(st, junctions[((k - 1) \div ne) + 1],
                                                                ir.edges[((k - 1) % ne) + 1]),
                                 [nodes |-> ir.nodes, moved |-> {}], Upto(total), 1, total)}} : TRUE

\* ------------------------------------------------------------------------
\* Math.log of a ratio, in 1/10000
\* ------------------------------------------------------------------------
\* ln(num / den) for den <= num < 2 * den by 2 * atanh((num - den) / (num + den))
LnNear(num, den) ==
    LET z == RoundDiv((num - den) * 10000, num + den)
        z2 == RoundDiv(z * z, 10000)
        z3 == RoundDiv(z2 * z, 10000)
        z5 == RoundDiv(z3 * z2, 10000)
        z7 == RoundDiv(z5 * z2, 10000)
    IN 2 * z + RoundDiv(2 * z3, 3) + RoundDiv(2 * z5, 5) + RoundDiv(2 * z7, 7)

\* ln(num / den) for num >= den > 0; ln 2 = 0.6931. Numbers of more than five
\* digits are cut to five before the series
RECURSIVE LnUp(_, _)
LnUp(num, den) ==
    IF num >= 2 * den THEN 6931 + LnUp(num, 2 * den)
    ELSE With(num \div 100000 + 1, LAMBDA s : LnNear(num \div s, den \div s))

\* |ln(num / den)| for num, den > 0
AbsLn(num, den) == IF num >= den THEN LnUp(num, den) ELSE LnUp(den, num)

\* ------------------------------------------------------------------------
\* readability.ts: penalty of evaluateReadability, in tenths
\* ------------------------------------------------------------------------
\* estimateTextBoxPx in hundredths of a pixel; charW = max(4, fontSize * 0.56)
estimateTextBoxPx(chars0, fontSize, maxWidth) ==
    LET chars == Max2(1, chars0)
        charW == Max2(400, fontSize * 56)
        w == clamp(chars * charW + 1000, 3200, Max2(32, maxWidth) * 100)
        cols == Max2(1, w \div charW)
        rows == Max2(1, CeilDiv(chars, cols))
    IN [w |-> w, h |-> rows * fontSize * 128 + 800]

EdgeFontSize == 11

NodeFontSize == 14

\* label rectangle of an edge, doubled coordinates in hundredths: [x0, y0, x1, y1]
LabelRect2(edge) ==
    LET box == estimateTextBoxPx(edge.labelChars, EdgeFontSize, 220)
        lp == edge.labelPosition[1]
    IN [x0 |-> 200 * lp.x - box.w, y0 |-> 200 * lp.y - box.h,
        x1 |-> 200 * lp.x + box.w, y1 |-> 200 * lp.y + box.h]

NodeRect2(node) ==
    [x0 |-> 200 * node.x, y0 |-> 200 * node.y,
     x1 |-> 200 * (node.x + node.width), y1 |-> 200 * (node.y + node.height)]

\* rectOverlapArea(a, b) > 0
RectsOverlap(a, b) ==
    Min2(a.x1, b.x1) - Max2(a.x0, b.x0) > 0 /\ Min2(a.y1, b.y1) - Max2(a.y0, b.y0) > 0

HasLabel(edge) == edge.labelChars > 0 /\ edge.labelPosition # <<>>

segmentToPointDistance(seg, p) ==
    LET vx == seg.x2 - seg.x1
        vy == seg.y2 - seg.y1
        wx == p.x - seg.x1
        wy == p.y - seg.y1
        c1 == vx * wx + vy * wy
        c2 == vx * vx + vy * vy
    IN IF c1 <= 0 \/ c2 <= 0 THEN Hypot(wx, wy)
       ELSE LET t == Min2(1000, RoundDiv(c1 * 1000, c2))
            IN Hypot(p.x - (seg.x1 + RoundDiv(vx * t, 1000)),
                     p.y - (seg.y1 + RoundDiv(vy * t, 1000)))

\* textOverflowRiskCount of one node (labelLen characters at the default font size)
TextOverflowRisk(node) ==
    LET est == estimateTextBoxPx(node.labelLen, NodeFontSize, Max2(48, node.width - 10))
    IN node.labelLen > 0 /\ (est.h > node.height * 98 \/ est.w > node.width * 102)

\* the metrics of evaluateReadability: areas in px2, the mean label distance in
\* tenths, the occupancy ratio in thousandths and its penalty times 24000; node
\* and subgraph colours are the defaults (no low-contrast pair)
\* a backflow measure that counts only edges that run backwards
backflowPenaltyStrict(from, to, rankdir) ==
    Max2(0, -ForwardProgress(from, to, rankdir))

\* readability.ts directionalPenalty (78-94): minForward is 22 there as well
backflowPenalty(from, to, rankdir) ==
    LET forward == ForwardProgress(from, to, rankdir)
    IN IF forward >= MinForward THEN 0 ELSE MinForward - forward

\* readability.ts 379-389: the penalty of one edge between node centres;
\* edges with a missing endpoint are skipped
edgeBackflow(nodes, edge, rankdir) ==
    LET f == IndexOfId(nodes, edge.from)
        t == IndexOfId(nodes, edge.to)
    IN IF f = 0 \/ t = 0 THEN 0
       ELSE backflowPenalty(nodeCenter(nodes[f]), nodeCenter(nodes[t]), rankdir)

ReadabilityMetrics(ir) ==
    LET rankdir == toRankdir(ir.direction)
        idx == NonJunctionIdx(ir.nodes)
        nodeOverlapArea == PairOverlapSum(ir.nodes, idx, 2)
        nodeOutOfSubgraphCount ==
            Cardinality({k \in DOMAIN idx :
                LET node == ir.nodes[idx[k]]
                    sg == IndexOfId(ir.subgraphs, node.subgraphId)
                IN /\ node.subgraphId # ""
                   /\ sg # 0
                   /\ ~(/\ node.x >= ir.subgraphs[sg].x - 2
                        /\ node.y >= ir.subgraphs[sg].y - 2
                        /\ node.x + node.width
                             <= ir.subgraphs[sg].x + ir.subgraphs[sg].width + 2
                        /\ node.y + node.height
                             <= ir.subgraphs[sg].y + ir.subgraphs[sg].height + 2)})
        segments == collectEdgeSegments(ir)
        edgeThroughNodeCount ==
            Cardinality({i \in DOMAIN segments :
                \E k \in DOMAIN idx :
                    /\ ir.nodes[idx[k]].id # ir.edges[segments[i].edge].from
                    /\ ir.nodes[idx[k]].id # ir.edges[segments[i].edge].to
                    /\ pointInExpandedNode2(segments[i].x1 + segments[i].x2,
                                            segments[i].y1 + segments[i].y2, ir.nodes[idx[k]], 3)})
        labelled == FilterIdx(ir.edges, HasLabel)
        edgeLabelNodeOverlapCount ==
            Cardinality({i \in DOMAIN labelled :
                \E k \in DOMAIN idx :
                    /\ ir.nodes[idx[k]].id # ir.edges[labelled[i]].from
                    /\ ir.nodes[idx[k]].id # ir.edges[labelled[i]].to
                    /\ RectsOverlap(LabelRect2(ir.edges[labelled[i]]), NodeRect2(ir.nodes[idx[k]]))})
        edgeLabelLabelOverlapCount ==
            Cardinality({pair \in (DOMAIN labelled) \X (DOMAIN labelled) :
                /\ pair[1] < pair[2]
                /\ RectsOverlap(LabelRect2(ir.edges[labelled[pair[1]]]),
                                LabelRect2(ir.edges[labelled[pair[2]]]))})
        OwnSegments(e) == {i \in DOMAIN segments : segments[i].edge = e}
        measured == {i \in DOMAIN labelled : OwnSegments(labelled[i]) # {}}
        MinDist(e) ==
            LET own == OwnSegments(e)
                Dist(i) == segmentToPointDistance(segments[i], ir.edges[e].labelPosition[1])
            IN Dist(CHOOSE i \in own : \A m \in own : Dist(i) <= Dist(m))
        distSum == SumSeq(ArrayOf([i \in DOMAIN labelled |->
                                      IF i \in measured THEN MinDist(labelled[i]) ELSE 0]), 1)
        edgeLabelDistanceMean ==
            IF measured = {} THEN 0 ELSE RoundDiv(distSum * 10, Cardinality(measured))
        textOverflowRiskCount ==
            Cardinality({k \in DOMAIN idx : TextOverflowRisk(ir.nodes[idx[k]])})
        totalEdgeBends == SumSeq(ArrayOf([k \in DOMAIN ir.edges |->
                                             Max2(0, Len(ir.edges[k].points) - 2)]), 1)
        Backflow(edge) == edgeBackflow(ir.nodes, edge, rankdir)
        directionalBackflowPenalty == SumSeq(ArrayOf([k \in DOMAIN ir.edges |-> Backflow(ir.edges[k])]), 1)
        occupancyRatio == RoundDiv(NodeAreaSum(ir.nodes, idx) * 1000,
                                   Max2(1, ir.bounds.width * ir.bounds.height))
        occupancyPenalty == IF occupancyRatio > 160
                            THEN (occupancyRatio - 160) * 24
                            ELSE RoundDiv((160 - occupancyRatio) * 432, 100)
    IN [nodeOverlapArea |-> nodeOverlapArea,
        subgraphOverlapArea |-> SubgraphOverlapSum(ir.subgraphs),
        nodeOutOfSubgraphCount |-> nodeOutOfSubgraphCount,
        edgeCrossings |-> CrossingCount(ir),
        edgeThroughNodeCount |-> edgeThroughNodeCount,
        edgeLabelNodeOverlapCount |-> edgeLabelNodeOverlapCount,
        edgeLabelLabelOverlapCount |-> edgeLabelLabelOverlapCount,
        edgeLabelDistanceMean |-> edgeLabelDistanceMean,
        lowContrastCount |-> 0,
        textOverflowRiskCount |-> textOverflowRiskCount,
        totalEdgeBends |-> totalEdgeBends,
        directionalBackflowPenalty |-> directionalBackflowPenalty,
        occupancyRatio |-> occupancyRatio,
        occupancyPenalty |-> occupancyPenalty]

\* the penalty of evaluateReadability, in tenths
PenaltyOf(metrics) ==
    metrics.nodeOverlapArea * 88
    + metrics.subgraphOverlapArea * 260
    + metrics.nodeOutOfSubgraphCount * 7800
    + metrics.edgeCrossings * 13000
    + metrics.edgeThroughNodeCount * 5200
    + metrics.edgeLabelNodeOverlapCount * 4600
    + metrics.edgeLabelLabelOverlapCount * 5600
    + Max2(0, metrics.edgeLabelDistanceMean - 200) * 12
    + metrics.lowContrastCount * 2100
    + metrics.textOverflowRiskCount * 3000
    + metrics.totalEdgeBends * 200
    + metrics.directionalBackflowPenalty * 45
    + metrics.occupancyPenalty

ReadabilityPenalty(ir) == PenaltyOf(ReadabilityMetrics(ir))

\* Math.log(x) in 1/10000 for x = num / den >= 1
NaturalLog(num, den) == LnUp(num, den)

\* Math.log10(x) in 1/10000 for x = num / den >= 1; ln 10 = 2.30258
Log10(num, den) == RoundDiv(LnUp(num, den) * 5000, 11513)

\* score of evaluateReadability in hundredths, the penalty in tenths:
\* clamp(100 - Math.log10(1 + penalty) * 18, 0, 100)
ReadabilityScore(penalty) ==
    clamp(10000 - RoundDiv(Log10(10 + penalty, 10) * 18, 100), 0, 10000)

\* an evaluation that drops the junctions from ir.nodes instead of filtering
\* them into an array of its own
evaluateReadabilityInPlace(ir) ==
    With(ReadabilityMetrics(ir), LAMBDA metrics :
        [ir |-> [ir EXCEPT !.nodes = ArrayOf([k \in DOMAIN NonJunctionIdx(ir.nodes) |->
                                                 ir.nodes[NonJunctionIdx(ir.nodes)[k]]])],
         penalty |-> PenaltyOf(metrics), score |-> ReadabilityScore(PenaltyOf(metrics)),
         metrics |-> metrics])

\* evaluateReadability: what it returns, and the diagram as it leaves it
evaluateReadability(ir) ==
    With(ReadabilityMetrics(ir), LAMBDA metrics :
        [ir |-> ir, penalty |-> PenaltyOf(metrics),
         score |-> ReadabilityScore(PenaltyOf(metrics)), metrics |-> metrics])

\* ------------------------------------------------------------------------
\* layout.ts: speculative corrections
\* ------------------------------------------------------------------------
\* the steps every trial runs after moving nodes
SettleTrial(ir, rankdir, cfg, passes) ==
    With(enforceSpatialConstraints(ir, cfg, passes), LAMBDA r : RerouteAndMeasure(r.ir, rankdir))

\* what a correction returns when it leaves before its first trial
Untried(ir) == [ir |-> ir, moved |-> FALSE, tried |-> FALSE, before |-> 0, after |-> 0]

CenterXs(nodes, idx) == ArrayOf([k \in DOMAIN idx |-> nodes[idx[k]].x + nodes[idx[k]].width \div 2])

CenterYs(nodes, idx) == ArrayOf([k \in DOMAIN idx |-> nodes[idx[k]].y + nodes[idx[k]].height \div 2])

\* deviations from the mean, times the number of values
DeviationsFrom(vs, sum) == ArrayOf([k \in DOMAIN vs |-> Len(vs) * vs[k] - sum])

Deviations(vs) == DeviationsFrom(vs, SumSeq(vs, 1))

SumOfProducts(a, b) == SumSeq(ArrayOf([k \in DOMAIN a |-> a[k] * b[k]]), 1)

\* cov / sqrt(varX * varY) in thousandths
CorrWithRoot(varX, varY, cov, root) ==
    IF varX > 0 /\ varY > 0 /\ root >= 1000 THEN RoundDiv(cov, RoundDiv(root, 1000)) ELSE 0

CorrOf(varX, varY, cov) == CorrWithRoot(varX, varY, cov, Isqrt(varX) * Isqrt(varY))

CorrBetween(dxs, dys) ==
    CorrOf(SumOfProducts(dxs, dxs), SumOfProducts(dys, dys), SumOfProducts(dxs, dys))

CorrAndImbalance(ir, idx) ==
    [corr |-> CorrBetween(Deviations(CenterXs(ir.nodes, idx)), Deviations(CenterYs(ir.nodes, idx))),
     imbalance |-> ImbalanceOf(QuadrantAreas(ir.nodes, idx, ir.bounds))]

\* computeCorrAndImbalance of reduceDiagonalSkew: corr and imbalance in thousandths
computeCorrAndImbalance(ir) == CorrAndImbalance(ir, NonJunctionIdx(ir.nodes))

SkewObjective(ir, rankdir, cfg, m) ==
    scoreLayoutQuality(ir, rankdir, cfg) + m.imbalance * 260 + Abs(m.corr) * 90

\* t = corr * amplitude in hundredths; sum, span: of the entry bounds along the
\* other axis
SkewShiftNode(node, vertical, t, sumX, sumY, spanX, spanY) ==
    IF node.isJunction THEN node
    ELSE IF vertical
    THEN [node EXCEPT !.y = @ - RoundDiv(t * (2 * node.x + node.width - sumX), 200 * spanX)]
    ELSE [node EXCEPT !.x = @ - RoundDiv(t * (2 * node.y + node.height - sumY), 200 * spanY)]

\* node shift of one attempt of reduceDiagonalSkew; amplitude in hundredths
SkewShift(ir0, rankdir, corr, amplitude) ==
    [ir0 EXCEPT !.nodes =
        ArrayOf([k \in DOMAIN ir0.nodes |->
                    SkewShiftNode(ir0.nodes[k], IsVertical(rankdir), RoundDiv(corr * amplitude, 1000),
                                  ir0.bounds.minX + ir0.bounds.maxX, ir0.bounds.minY + ir0.bounds.maxY,
                                  Max2(1, ir0.bounds.width), Max2(1, ir0.bounds.height))])]

AttemptScale(attempt) == IF attempt = 0 THEN 100 ELSE IF attempt = 1 THEN 62 ELSE 38

\* an attempt that is kept whatever was measured after it
SkewOutcomeAlways(ir1, c, after, afterObjective) ==
    [ir |-> ir1, moved |-> TRUE, tried |-> TRUE,
     before |-> c.beforeObjective, after |-> afterObjective]

\* the end of an attempt of reduceDiagonalSkew: the test that keeps the change
SkewOutcome(ir1, c, after, afterObjective) ==
    IF /\ \/ Abs(after.corr) * 10 < Abs(c.before.corr) * 9
          \/ after.imbalance * 10 < c.before.imbalance * 9
       /\ afterObjective < c.beforeObjective
    THEN [ir |-> ir1, moved |-> TRUE, tried |-> TRUE,
          before |-> c.beforeObjective, after |-> afterObjective]
    ELSE [ir |-> ir1, moved |-> FALSE, tried |-> TRUE,
          before |-> c.beforeObjective, after |-> c.beforeObjective]

\* the start of an attempt: restore, shift, enforce the constraints, reroute
SkewTrial(cur, c, attempt) ==
    SettleTrial(SkewShift(restoreLayoutState(cur, c.beforeState), c.rankdir, c.before.corr,
                          RoundDiv(c.baseAmplitude * AttemptScale(attempt), 100)),
                c.rankdir, c.cfg, 10)

\* one iteration of the loop of attempts; st: what the iterations before left
\* (nothing is done once an attempt has returned true); c: what the function
\* computed before the loop
SkewAttempt(st, c, attempt) ==
    IF st.moved THEN st
    ELSE With(SkewTrial(st.ir, c, attempt), LAMBDA ir1 :
         With(computeCorrAndImbalance(ir1), LAMBDA after :
         With(SkewObjective(ir1, c.rankdir, c.cfg, after), LAMBDA afterObjective :
              SkewOutcome(ir1, c, after, afterObjective))))

\* a return of false that leaves the last attempt in place
SkewRejectedUnrestored(st, c) ==
    IF st.moved THEN st
    ELSE [ir |-> st.ir, moved |-> FALSE, tried |-> TRUE,
          before |-> c.beforeObjective, after |-> c.beforeObjective]

\* after the last attempt: restoreLayoutState(ir, beforeState); return false
SkewRejected(st, c) ==
    IF st.moved THEN st
    ELSE [ir |-> restoreLayoutState(st.ir, c.beforeState), moved |-> FALSE, tried |-> TRUE,
          before |-> c.beforeObjective, after |-> c.beforeObjective]

SkewAttempts(ir0, c) ==
    With(FoldFrom(LAMBDA st, attempt : SkewAttempt(st, c, attempt), Untried(ir0), <<0, 1, 2>>, 1, 3),
         LAMBDA st : SkewRejected(st, c))

SkewFrom(ir0, rankdir, cfg, before) ==
    IF Abs(before.corr) < 420 \/ before.imbalance < 1250 THEN Untried(ir0)
    ELSE With([beforeState |-> captureLayoutState(ir0), rankdir |-> rankdir, cfg |-> cfg,
               before |-> before,
               beforeObjective |-> SkewObjective(ir0, rankdir, cfg, before),
               baseAmplitude |->
                   RoundDiv(clamp(Min2(ir0.bounds.width, ir0.bounds.height) * 7, 2000, 12000)
                            * clamp(Abs(before.corr), 450, 1000), 1000)],
              LAMBDA c : SkewAttempts(ir0, c))

SkewMeasure(ir0, rankdir, cfg) ==
    With(computeCorrAndImbalance(ir0), LAMBDA before : SkewFrom(ir0, rankdir, cfg, before))

\* reduceDiagonalSkew: [ir, moved, tried (a trial was made), before, after (objectives)]
reduceDiagonalSkew(ir, rankdir, cfg) ==
    IF Len(NonJunctionIdx(ir.nodes)) < 8 THEN Untried(ir)
    ELSE With(Remeasure(ir), LAMBDA ir0 : SkewMeasure(ir0, rankdir, cfg))

\* computeState of rebalanceQuadrantCoverage
QuadrantStateOf(q) ==
    [imbalance |-> ImbalanceOf(q), leftArea |-> q[1] + q[3], rightArea |-> q[2] + q[4],
     topArea |-> q[1] + q[2], bottomArea |-> q[3] + q[4]]

\* computeState of rebalanceQuadrantCoverage
QuadrantState(ir) ==
    QuadrantStateOf(QuadrantAreas(ir.nodes, NonJunctionIdx(ir.nodes), ir.bounds))

RebalanceObjective(ir, rankdir, cfg, imbalance) ==
    scoreLayoutQuality(ir, rankdir, cfg) + imbalance * 280

\* weightX / weightY in thousandths; offset = 2 * (centre - bounds centre)
RebalanceWeight(offset, span) == clamp(650 + RoundDiv(Abs(offset) * 1400, span), 650, 1900)

\* pressure * baseShift * scale * weight, in pixels
RebalanceAmount(pressure, weight, baseShift, scale) ==
    RoundDiv(RoundDiv(RoundDiv(pressure * baseShift, 1000) * scale, 100) * weight, 100000)

RebalanceDelta(pressure, offset, span, baseShift, scale) ==
    IF (pressure > 0 /\ offset < 0) \/ (pressure < 0 /\ offset > 0)
    THEN RebalanceAmount(pressure, RebalanceWeight(offset, span), baseShift, scale)
    ELSE 0

RebalanceShiftNode(node, p, scale, sumX, sumY, spanX, spanY) ==
    IF node.isJunction THEN node
    ELSE [node EXCEPT
             !.x = @ + RebalanceDelta(p.x, 2 * node.x + node.width - sumX, spanX, p.baseShift, scale),
             !.y = @ + RebalanceDelta(p.y, 2 * node.y + node.height - sumY, spanY, p.baseShift, scale)]

\* node shift of one trial of rebalanceQuadrantCoverage; scale in percent;
\* p = [x, y, baseShift]: the pressures and the base shift
RebalanceShift(ir0, p, scale) ==
    [ir0 EXCEPT !.nodes =
        ArrayOf([k \in DOMAIN ir0.nodes |->
                    RebalanceShiftNode(ir0.nodes[k], p, scale,
                                       ir0.bounds.minX + ir0.bounds.maxX, ir0.bounds.minY + ir0.bounds.maxY,
                                       Max2(1, ir0.bounds.width), Max2(1, ir0.bounds.height))])]

TryScale(k) == IF k = 0 THEN 100 ELSE IF k = 1 THEN 62 ELSE 36

\* the end of a trial of rebalanceQuadrantCoverage: the test that keeps the change
RebalanceOutcome(ir1, c, after, afterObjective) ==
    IF /\ after.imbalance * 100 < c.before.imbalance * 88
       /\ afterObjective * 100 <= c.beforeObjective * 108
    THEN [ir |-> ir1, moved |-> TRUE, tried |-> TRUE,
          before |-> c.beforeObjective, after |-> afterObjective]
    ELSE [ir |-> ir1, moved |-> FALSE, tried |-> TRUE,
          before |-> c.beforeObjective, after |-> c.beforeObjective]

\* a trial whose shift moved a node: constraints, routes, then the test
RebalanceSettled(shifted, c) ==
    With(SettleTrial(shifted, c.rankdir, c.cfg, 10), LAMBDA ir1 :
    With(QuadrantState(ir1), LAMBDA after :
    With(RebalanceObjective(ir1, c.rankdir, c.cfg, after.imbalance), LAMBDA afterObjective :
         RebalanceOutcome(ir1, c, after, afterObjective))))

\* a trial from the restored diagram ir0; a shift that moves no node is skipped
RebalanceFrom(ir0, shifted, c) ==
    IF shifted.nodes = ir0.nodes
    THEN [ir |-> ir0, moved |-> FALSE, tried |-> TRUE,
          before |-> c.beforeObjective, after |-> c.beforeObjective]
    ELSE RebalanceSettled(shifted, c)

\* one iteration of the loop of trials; st: what the iterations before left
\* (nothing is done once a trial has returned true); c: what the function
\* computed before the loop
RebalanceTrial(st, c, k) ==
    IF st.moved THEN st
    ELSE With(restoreLayoutState(st.ir, c.beforeState), LAMBDA ir0 :
         With(RebalanceShift(ir0, c.p, TryScale(k)), LAMBDA shifted :
              RebalanceFrom(ir0, shifted, c)))

\* after the last trial: restoreLayoutState(ir, beforeState); return false
RebalanceRejected(st, c) ==
    IF st.moved THEN st
    ELSE [ir |-> restoreLayoutState(st.ir, c.beforeState), moved |-> FALSE, tried |-> TRUE,
          before |-> c.beforeObjective, after |-> c.beforeObjective]

RebalanceTrials(ir0, c) ==
    With(FoldFrom(LAMBDA st, k : RebalanceTrial(st, c, k), Untried(ir0), <<0, 1, 2>>, 1, 3),
         LAMBDA st : RebalanceRejected(st, c))

Pressure(area, otherArea, totalArea) ==
    clamp(RoundDiv((area - otherArea) * 1000, Max2(1, totalArea)), -900, 900)

RebalanceWith(ir0, rankdir, cfg, before, p) ==
    IF before.imbalance < 1300 \/ before.leftArea + before.rightArea <= 0 THEN Untried(ir0)
    ELSE IF Abs(p.x) < 80 /\ Abs(p.y) < 80 THEN Untried(ir0)
    ELSE With([beforeState |-> captureLayoutState(ir0), rankdir |-> rankdir,
               cfg |-> cfg, before |-> before, p |-> p,
               beforeObjective |-> RebalanceObjective(ir0, rankdir, cfg, before.imbalance)],
              LAMBDA c : RebalanceTrials(ir0, c))

RebalanceMeasure(ir0, rankdir, cfg, before) ==
    RebalanceWith(ir0, rankdir, cfg, before,
                  [x |-> Pressure(before.leftArea, before.rightArea,
                                  before.leftArea + before.rightArea),
                   y |-> Pressure(before.topArea, before.bottomArea,
                                  before.leftArea + before.rightArea),
                   baseShift |-> clamp(Min2(ir0.bounds.width, ir0.bounds.height) * 4, 1400, 6400)])

RebalanceEntry(ir0, rankdir, cfg) ==
    With(QuadrantState(ir0), LAMBDA before : RebalanceMeasure(ir0, rankdir, cfg, before))

\* rebalanceQuadrantCoverage: [ir, moved, tried, before, after]
rebalanceQuadrantCoverage(ir, rankdir, cfg) ==
    IF Len(NonJunctionIdx(ir.nodes)) < 8 THEN Untried(ir)
    ELSE With(Remeasure(ir), LAMBDA ir0 : RebalanceEntry(ir0, rankdir, cfg))

\* candidate moves of promoteUnderfilledQuadrant in priority order:
\* [node (index), dx, dy, degree, priority]
PromoteMargin(node) == Max2(22, Min2(64, MulQ(Min2(node.width, node.height), 40, 100)))

\* dx or dy of a candidate; offset = 2 * (node centre - bounds centre), needsFar:
\* the underfilled quadrant is on the right (bottom)
PromoteDelta(needsFar, offset, margin) ==
    IF needsFar /\ offset < 0 THEN RoundDiv(-offset, 2) + margin
    ELSE IF ~needsFar /\ offset > 0 THEN RoundDiv(-offset, 2) - margin
    ELSE 0

\* quadrantOf, from the doubled offsets to the bounds centre
QuadrantOfOffset(ox, oy) == (IF oy >= 0 THEN 2 ELSE 0) + (IF ox >= 0 THEN 1 ELSE 0)

DegreeOf(edges, id) ==
    Cardinality({e \in DOMAIN edges : edges[e].from = id \/ edges[e].to = id})

PromoteMoveBy(i, node, quadrant, underQuadrant, dx, dy, degree) ==
    [node |-> i, dx |-> dx, dy |-> dy, degree |-> degree,
     use |-> quadrant # underQuadrant /\ (dx # 0 \/ dy # 0),
     priority |-> RoundDiv(Hypot(dx, dy) * 100 * (10 + 9 * degree),
                           Max2(1, Isqrt(node.width * node.height)))]

PromoteMoveAt(ir0, i, node, underQuadrant, ox, oy) ==
    PromoteMoveBy(i, node, QuadrantOfOffset(ox, oy), underQuadrant,
                  PromoteDelta(underQuadrant % 2 = 1, ox, PromoteMargin(node)),
                  PromoteDelta(underQuadrant >= 2, oy, PromoteMargin(node)),
                  DegreeOf(ir0.edges, node.id))

\* the move of the node at index i: [node (index), dx, dy, degree, use, priority]
PromoteMove(ir0, i, underQuadrant) ==
    PromoteMoveAt(ir0, i, ir0.nodes[i], underQuadrant,
                  2 * ir0.nodes[i].x + ir0.nodes[i].width - (ir0.bounds.minX + ir0.bounds.maxX),
                  2 * ir0.nodes[i].y + ir0.nodes[i].height - (ir0.bounds.minY + ir0.bounds.maxY))

PromoteMoves(ir0, idx, underQuadrant) ==
    ArrayOf([k \in DOMAIN idx |-> PromoteMove(ir0, idx[k], underQuadrant)])

\* position of used[k] after the stable sort by ascending priority
PriorityRank(moves, used, k) ==
    Cardinality({m \in DOMAIN used :
                    \/ moves[used[m]].priority < moves[used[k]].priority
                    \/ (moves[used[m]].priority = moves[used[k]].priority /\ m < k)})

SortedMoves(moves, used) ==
    ArrayOf([p \in DOMAIN used |->
                moves[used[CHOOSE k \in DOMAIN used : PriorityRank(moves, used, k) = p - 1]]])

UsedMoves(moves) == SortedMoves(moves, FilterIdx(moves, LAMBDA m : m.use))

\* candidate moves of promoteUnderfilledQuadrant in priority order
PromoteCandidates(ir0, underQuadrant) ==
    UsedMoves(PromoteMoves(ir0, NonJunctionIdx(ir0.nodes), underQuadrant))

PromoteScale(k) == IF k = 0 THEN 100 ELSE IF k = 1 THEN 72 ELSE 50

\* st = [cur, found, bestState, bestObjective]: the diagram as the last trial
\* left it and the best trial so far
PromoteKeep(st, ir1, acceptable, afterObjective) ==
    IF acceptable /\ (~st.found \/ afterObjective < st.bestObjective)
    THEN [cur |-> ir1, found |-> TRUE, bestState |-> captureLayoutState(ir1),
          bestObjective |-> afterObjective]
    ELSE [st EXCEPT !.cur = ir1]

PromoteJudge(st, ir1, c, candidate, afterImbalance, afterReadPenalty) ==
    PromoteKeep(st, ir1,
                /\ afterImbalance * 100 < c.beforeImbalance * 93
                /\ afterReadPenalty * 100 <= c.beforeReadPenalty * 106,
                afterReadPenalty + afterImbalance * 52 + candidate.degree * 2600)

\* the quadrants are those of the entry bounds (cx, cy are computed once)
PromoteSettled(st, ir1, c, candidate) ==
    With(ImbalanceOf(QuadrantAreas(ir1.nodes, NonJunctionIdx(ir1.nodes), c.bounds)),
         LAMBDA afterImbalance :
    With(ReadabilityPenalty(ir1), LAMBDA afterReadPenalty :
         PromoteJudge(st, ir1, c, candidate, afterImbalance, afterReadPenalty)))

PromoteMoved(ir0, candidate, scale) ==
    [ir0 EXCEPT !.nodes[candidate.node].x = @ + RoundDiv(candidate.dx * scale, 100),
                !.nodes[candidate.node].y = @ + RoundDiv(candidate.dy * scale, 100)]

PromoteTrial(st, c, candidate, scale) ==
    With(restoreLayoutState(st.cur, c.beforeState), LAMBDA ir0 :
    With(SettleTrial(PromoteMoved(ir0, candidate, scale), c.rankdir, c.cfg, 12), LAMBDA ir1 :
         PromoteSettled(st, ir1, c, candidate)))

\* the trial loop of promoteUnderfilledQuadrant; trial t = 3 * candidate + scale
PromoteTrials(st, c) ==
    FoldFrom(LAMBDA cur, t : PromoteTrial(cur, c, c.pool[((t - 1) \div 3) + 1],
                                          PromoteScale((t - 1) % 3)),
             st, Upto(3 * Len(c.pool)), 1, 3 * Len(c.pool))

PromoteResult(st, beforeState) ==
    IF ~st.found
    THEN [ir |-> restoreLayoutState(st.cur, beforeState), moved |-> FALSE, tried |-> TRUE]
    ELSE [ir |-> restoreLayoutState(st.cur, st.bestState), moved |-> TRUE, tried |-> TRUE]

PromoteFromPool(ir0, rankdir, cfg, beforeImbalance, pool, beforeState) ==
    With([beforeState |-> beforeState, rankdir |-> rankdir, cfg |-> cfg,
          pool |-> pool, bounds |-> ir0.bounds,
          beforeImbalance |-> beforeImbalance,
          beforeReadPenalty |-> ReadabilityPenalty(ir0)], LAMBDA c :
    With(PromoteTrials([cur |-> ir0, found |-> FALSE, bestState |-> beforeState,
                        bestObjective |-> 0], c), LAMBDA st :
         PromoteResult(st, beforeState)))

PromoteAmong(ir0, rankdir, cfg, beforeImbalance, candidates) ==
    IF Len(candidates) = 0 THEN [ir |-> ir0, moved |-> FALSE, tried |-> FALSE]
    ELSE With(captureLayoutState(ir0), LAMBDA beforeState :
              PromoteFromPool(ir0, rankdir, cfg, beforeImbalance,
                              SubSeq(candidates, 1, Min2(6, Len(candidates))), beforeState))

\* areaByQuadrant.indexOf(minArea)
LeastQuadrant(areaByQuadrant, minArea) ==
    (CHOOSE q \in 1..4 : /\ areaByQuadrant[q] = minArea
                         /\ \A r \in 1..4 : areaByQuadrant[r] = minArea => q <= r) - 1

PromoteByAreas(ir0, rankdir, cfg, areaByQuadrant, totalArea, minArea, beforeImbalance) ==
    IF totalArea <= 0 \/ beforeImbalance < 1450
    THEN [ir |-> ir0, moved |-> FALSE, tried |-> FALSE]
    \* areaByQuadrant[underQuadrant] >= meanArea * 0.72
    ELSE IF minArea * 100 >= totalArea * 18
    THEN [ir |-> ir0, moved |-> FALSE, tried |-> FALSE]
    ELSE With(PromoteCandidates(ir0, LeastQuadrant(areaByQuadrant, minArea)), LAMBDA candidates :
              PromoteAmong(ir0, rankdir, cfg, beforeImbalance, candidates))

PromoteMeasured(ir0, rankdir, cfg, areaByQuadrant) ==
    PromoteByAreas(ir0, rankdir, cfg, areaByQuadrant, SumSeq(areaByQuadrant, 1),
                   MinSeq(areaByQuadrant, 1), ImbalanceOf(areaByQuadrant))

PromoteEntry(ir0, rankdir, cfg) ==
    With(QuadrantAreas(ir0.nodes, NonJunctionIdx(ir0.nodes), ir0.bounds), LAMBDA areaByQuadrant :
         PromoteMeasured(ir0, rankdir, cfg, areaByQuadrant))

\* promoteUnderfilledQuadrant: [ir, moved, tried]
promoteUnderfilledQuadrant(ir, rankdir, cfg) ==
    IF Len(NonJunctionIdx(ir.nodes)) < 8 THEN [ir |-> ir, moved |-> FALSE, tried |-> FALSE]
    ELSE With(Remeasure(ir), LAMBDA ir0 : PromoteEntry(ir0, rankdir, cfg))

\* clampAspect; aspect ratios are fractions [num, den]
clampAspect(value) ==
    IF value.num * MIN_LAYOUT_ASPECT_DEN < MIN_LAYOUT_ASPECT_NUM * value.den
    THEN [num |-> MIN_LAYOUT_ASPECT_NUM, den |-> MIN_LAYOUT_ASPECT_DEN]
    ELSE IF value.num * MAX_LAYOUT_ASPECT_DEN > MAX_LAYOUT_ASPECT_NUM * value.den
    THEN [num |-> MAX_LAYOUT_ASPECT_NUM, den |-> MAX_LAYOUT_ASPECT_DEN]
    ELSE value

\* diagramAspect(ir) / target as a fraction
AspectRatio(ir, target) ==
    [num |-> ir.bounds.width * target.den, den |-> Max2(1, ir.bounds.height) * target.num]

\* |ln(max(1e-6, diagramAspect(ir) / target))| in 1/10000; ln(1e-6) = -13.8155
AspectDeviation(ir, target) ==
    LET ratio == AspectRatio(ir, target)
    IN IF ratio.num <= 0 THEN 138155 ELSE AbsLn(ratio.num, ratio.den)

FitObjective(ir, rankdir, cfg, deviation) ==
    scoreLayoutQuality(ir, rankdir, cfg) + deviation * 150

\* node shift of one attempt of fitLayoutToTargetAspect; strengths in 1/10000
FitShiftNode(node, sumX, sumY, strengthX, strengthY) ==
    IF node.isJunction THEN node
    ELSE [node EXCEPT
             !.x = @ - RoundDiv((2 * node.x + node.width - sumX) * strengthX, 20000),
             !.y = @ - RoundDiv((2 * node.y + node.height - sumY) * strengthY, 20000)]

\* node shift of one attempt of fitLayoutToTargetAspect; strengths in 1/10000
FitShift(ir0, strengthX, strengthY) ==
    [ir0 EXCEPT !.nodes =
        ArrayOf([k \in DOMAIN ir0.nodes |->
                    FitShiftNode(ir0.nodes[k], ir0.bounds.minX + ir0.bounds.maxX,
                                 ir0.bounds.minY + ir0.bounds.maxY, strengthX, strengthY)])]

\* attemptScale after 0, 1, 2 multiplications by 0.58, in 1/10000
FitAttemptScale(attempt) == IF attempt = 0 THEN 10000 ELSE IF attempt = 1 THEN 5800 ELSE 3364

\* the attempts of one pass: [ir, accepted]; c: what the pass computed before them
RECURSIVE FitAttempts(_, _, _)
FitOutcome(ir1, c, attempt, afterDeviation, afterObjective) ==
    IF afterObjective < c.beforeObjective \/ afterDeviation * 100 < c.beforeDeviation * 92
    THEN [ir |-> ir1, accepted |-> TRUE]
    ELSE FitAttempts(ir1, c, attempt + 1)

FitMeasured(ir1, c, attempt, afterDeviation) ==
    FitOutcome(ir1, c, attempt, afterDeviation,
               FitObjective(ir1, c.rankdir, c.cfg, afterDeviation))

FitSettled(ir1, c, attempt) == FitMeasured(ir1, c, attempt, AspectDeviation(ir1, c.target))

FitTrial(ir0, shifted, c, attempt) ==
    IF shifted.nodes = ir0.nodes THEN [ir |-> ir0, accepted |-> FALSE]
    ELSE FitSettled(SettleTrial(shifted, c.rankdir, c.cfg, 8), c, attempt)

FitToward(ir0, c, attempt, tooWide, tooTall, compressStrength) ==
    IF ~tooWide /\ ~tooTall THEN [ir |-> ir0, accepted |-> FALSE]
    ELSE FitTrial(ir0,
                  FitShift(ir0, IF tooWide THEN compressStrength ELSE 0,
                           IF tooWide THEN 0 ELSE compressStrength),
                  c, attempt)

FitFrom(ir0, c, attempt) ==
    FitToward(ir0, c, attempt,
              c.ratio.num * 1000 > c.ratio.den * 1015, c.ratio.num * 1000 < c.ratio.den * 985,
              RoundDiv(c.baseCompress * FitAttemptScale(attempt), 10000))

FitAttempts(cur, c, attempt) ==
    IF attempt >= 3 THEN [ir |-> cur, accepted |-> FALSE]
    ELSE FitFrom(restoreLayoutState(cur, c.beforeState), c, attempt)

\* the passes of fitLayoutToTargetAspect: [ir, moved, tried]
RECURSIVE FitPasses(_, _, _, _, _, _, _)
FitPassResult(r, beforeState, target, rankdir, cfg, passes, moved) ==
    IF ~r.accepted
    THEN [ir |-> restoreLayoutState(r.ir, beforeState), moved |-> moved, tried |-> TRUE]
    ELSE FitPasses(r.ir, target, rankdir, cfg, passes - 1, TRUE, TRUE)

FitPassWith(ir0, target, rankdir, cfg, passes, moved, tried, beforeDeviation, beforeState) ==
    IF beforeDeviation <= 120 THEN [ir |-> ir0, moved |-> moved, tried |-> tried]
    ELSE FitPassResult(FitAttempts(ir0,
                                   [beforeState |-> beforeState, rankdir |-> rankdir,
                                    cfg |-> cfg, target |-> target,
                                    ratio |-> AspectRatio(ir0, target),
                                    beforeDeviation |-> beforeDeviation,
                                    beforeObjective |->
                                        FitObjective(ir0, rankdir, cfg, beforeDeviation),
                                    baseCompress |->
                                        clamp(RoundDiv(beforeDeviation * 55, 100), 400, 2400)],
                                   0),
                       beforeState, target, rankdir, cfg, passes, moved)

FitPassFrom(ir0, target, rankdir, cfg, passes, moved, tried) ==
    FitPassWith(ir0, target, rankdir, cfg, passes, moved, tried,
                AspectDeviation(ir0, target), captureLayoutState(ir0))

FitPasses(ir, target, rankdir, cfg, passes, moved, tried) ==
    IF passes <= 0 THEN [ir |-> ir, moved |-> moved, tried |-> tried]
    ELSE FitPassFrom(Remeasure(ir), target, rankdir, cfg, passes, moved, tried)

fitLayoutToTargetAspect(ir, targetAspectRatio, rankdir, cfg, passes) ==
    IF Len(NonJunctionIdx(ir.nodes)) <= 1 THEN [ir |-> ir, moved |-> FALSE, tried |-> FALSE]
    ELSE FitPasses(ir, clampAspect(targetAspectRatio), rankdir, cfg, passes, FALSE, FALSE)

\* ------------------------------------------------------------------------
\* layout.ts applyLayout, lines 2268-2385: the layered placement by dagre.
\* dagre is a library outside the repository; it is modelled as a layered
\* placement driven by the same inputs the code hands to it (rankdir,
\* nodesep, ranksep, margins, node sizes, edges), with the order inside a rank
\* left open between the two orders `mirrored` selects.
\* ------------------------------------------------------------------------
DagreMargin == 30

\* the ids of the compound graph: graph.setNode of lines 2280-2296
GraphIds(ir) ==
    {ir.subgraphs[k].id : k \in DOMAIN ir.subgraphs} \cup {ir.nodes[k].id : k \in DOMAIN ir.nodes}

\* graphlib's walk up the parents set so far, from a new parent to the root:
\* does it meet v
RECURSIVE MeetsOnWayUp(_, _, _)
MeetsOnWayUp(parent, from, v) ==
    IF from = "" THEN FALSE
    ELSE IF from = v THEN TRUE
    ELSE MeetsOnWayUp(parent, parent[from], v)

\* graph.setParent(child, par): graphlib refuses a parent that would close a
\* cycle by throwing; st = [parent (id -> parent id, "": none), threw]
SetParent(st, child, par) ==
    IF st.threw THEN st
    ELSE IF MeetsOnWayUp(st.parent, par, child) THEN [st EXCEPT !.threw = TRUE]
    ELSE [st EXCEPT !.parent[child] = par]

\* lines 2288-2300: a node is put into its subgraph when the graph has it
SetNodeParent(ir, st, k) ==
    IF /\ IndexOfId(ir.subgraphs, ir.nodes[k].id) = 0
       /\ ir.nodes[k].subgraphId # ""
       /\ \/ IndexOfId(ir.subgraphs, ir.nodes[k].subgraphId) # 0
          \/ \E j \in 1..k : ir.nodes[j].id = ir.nodes[k].subgraphId
    THEN SetParent(st, ir.nodes[k].id, ir.nodes[k].subgraphId)
    ELSE st

\* lines 2304-2310: a subgraph is put into its parent unless it has none, is
\* its own parent, or the graph lacks the parent
SetSubgraphParent(ir, st, subgraph) ==
    IF subgraph.parentId = "" \/ subgraph.parentId = subgraph.id
          \/ subgraph.parentId \notin GraphIds(ir)
    THEN st
    ELSE SetParent(st, subgraph.id, subgraph.parentId)

\* the setParent calls of applyLayout, in their order; TRUE when one throws
SetParentThrows(ir) ==
    FoldFrom(LAMBDA st, subgraph : SetSubgraphParent(ir, st, subgraph),
             FoldFrom(LAMBDA st, k : SetNodeParent(ir, st, k),
                      [parent |-> [id \in GraphIds(ir) |-> ""], threw |-> FALSE],
                      Upto(Len(ir.nodes)), 1, Len(ir.nodes)),
             ir.subgraphs, 1, Len(ir.subgraphs)).threw

\* rank of every node: longest path over the edges that run from an earlier
\* node of ir.nodes to a later one (the other edges are the feedback edges)
DagreRanks(ir) ==
    LET n == Len(ir.nodes)
        F[i \in 1..n] ==
            LET preds == {IndexOfId(ir.nodes, ir.edges[e].from) : e \in
                             {e \in DOMAIN ir.edges :
                                 /\ IndexOfId(ir.nodes, ir.edges[e].to) = i
                                 /\ IndexOfId(ir.nodes, ir.edges[e].from) > 0
                                 /\ IndexOfId(ir.nodes, ir.edges[e].from) < i}}
            IN IF preds = {} THEN 0
               ELSE LET ranks == {F[j] : j \in preds}
                    IN 1 + CHOOSE r \in ranks : \A q \in ranks : q <= r
    IN F

DagrePlace(ir, cfg, rankdir, mirrored) ==
    LET n == Len(ir.nodes)
        rank == DagreRanks(ir)
        maxRank == IF n = 0 THEN 0 ELSE MaxSeq(ArrayOf([i \in 1..n |-> rank[i]]), 1)
        vertical == IsVertical(rankdir)
        Along(node) == IF vertical THEN node.width ELSE node.height
        Across(node) == IF vertical THEN node.height ELSE node.width
        Level(i) == IF rankdir \in {"BT", "RL"} THEN maxRank - rank[i] ELSE rank[i]
        Thick(level) ==
            LET members == {i \in 1..n : Level(i) = level}
            IN IF members = {} THEN 0
               ELSE LET sizes == {Across(ir.nodes[i]) : i \in members}
                    IN CHOOSE s \in sizes : \A q \in sizes : q <= s
        LevelStart[level \in 0..maxRank] ==
            IF level = 0 THEN DagreMargin
            ELSE LET prev == LevelStart[level - 1]
                 IN prev + Thick(level - 1) + cfg.ranksep
        Before(i) ==
            {j \in 1..n : Level(j) = Level(i) /\ (IF mirrored THEN j > i ELSE j < i)}
        AlongStart(i) ==
            LET before == Before(i)
                ids == ArrayOf([k \in 1..n |-> IF k \in before THEN Along(ir.nodes[k]) + cfg.nodesep ELSE 0])
            IN DagreMargin + SumSeq(ids, 1)
        AcrossStart(i) ==
            LevelStart[Level(i)] + ((Thick(Level(i)) - Across(ir.nodes[i])) \div 2)
        Place(i) ==
            IF vertical
            THEN [ir.nodes[i] EXCEPT !.x = AlongStart(i), !.y = AcrossStart(i)]
            ELSE [ir.nodes[i] EXCEPT !.x = AcrossStart(i), !.y = AlongStart(i)]
    IN [ir EXCEPT !.nodes = ArrayOf([i \in 1..n |-> Place(i)])]

\* ------------------------------------------------------------------------
\* layout.ts: optimizeNodePlacement (610-1052)
\* The two early returns and the final collision pass over the movable nodes
\* are the code's. The force simulation and the local search between them are
\* abstracted: every movable node is displaced by `drift` steps of DriftStep
\* pixels, the direction alternating with its position among the movable
\* nodes. Junctions and pinned nodes are never written by the code (only
\* movableNodes are assigned), nor here.
\* ------------------------------------------------------------------------
MaxDrift == 1

DriftStep == 6

PlacementMinGap(cfg) == Max2(10, Min2(34, RoundDiv(cfg.nodesep * 26, 100)))

\* a filter that forgets the pinned set
MovableIdxUnpinned(nodes, pinnedNodeIds) == NonJunctionIdx(nodes)

MovableIdx(nodes, pinnedNodeIds) ==
    FilterIdx(nodes, LAMBDA n : ~n.isJunction /\ n.id \notin pinnedNodeIds)

DriftNode(node, k, drift) ==
    [node EXCEPT !.x = @ + (IF k % 2 = 1 THEN drift * DriftStep ELSE -(drift * DriftStep)),
                 !.y = @ + (IF k % 4 < 2 THEN drift * DriftStep ELSE -(drift * DriftStep))]

optimizeNodePlacement(ir, rankdir, pinnedNodeIds, cfg, drift) ==
    LET allNodes == NonJunctionIdx(ir.nodes)
        movableNodes == MovableIdx(ir.nodes, pinnedNodeIds)
        Position(i) == CHOOSE k \in DOMAIN movableNodes : movableNodes[k] = i
        shifted == ArrayOf([i \in DOMAIN ir.nodes |->
                               IF \E k \in DOMAIN movableNodes : movableNodes[k] = i
                               THEN DriftNode(ir.nodes[i], Position(i), drift)
                               ELSE ir.nodes[i]])
    IN IF Len(allNodes) <= 1 THEN ir
       ELSE IF Len(movableNodes) <= 1 THEN ir
       ELSE [ir EXCEPT !.nodes =
                resolveNodeCollisions(shifted, movableNodes,
                                      Max2(4, RoundDiv(PlacementMinGap(cfg) * 3, 4)), 1)]

\* ------------------------------------------------------------------------
\* layout.ts: optimizeLayoutWithRestarts (2204-2264)
\* ------------------------------------------------------------------------
\* clamp(Math.round(3 + Math.sqrt(Math.max(1, n)) * 0.8), 3, 10):
\* round(0.8 * sqrt(n)) >= k  iff  256 * n >= 100 * (2k - 1)^2
candidateCountOf(ir) ==
    clamp(3 + Cardinality({k \in 1..7 : 256 * Max2(1, Len(ir.nodes)) >= 100 * (2 * k - 1) * (2 * k - 1)}),
          3, 10)

\* the block the code runs `if (moved)`: new routes, then new bounds
AfterMove(r, rankdir) == IF r.moved THEN RerouteAndMeasure(r.ir, rankdir) ELSE r.ir

\* 2217-2222: restore the base state, jitter every candidate but the first
JitteredCandidate(restored, candidate, rankdir, pinnedNodeIds, cfg) ==
    IF candidate > 0
    THEN applyDeterministicJitter(restored, pinnedNodeIds, rankdir, candidate, cfg)
    ELSE restored

\* 2238-2243 after movedByCollision: the routes are rebuilt, the bounds only
\* when enforceSpatialConstraints moved something
AfterCollisionConstraints(again, rankdir) ==
    IF again.moved THEN RerouteAndMeasure(again.ir, rankdir) ELSE Reroute(again.ir, rankdir)

\* 2236-2244
CollisionStage(col, rankdir, cfg) ==
    IF col.moved
    THEN AfterCollisionConstraints(enforceSpatialConstraints(col.ir, cfg, 6), rankdir)
    ELSE col.ir

\* 2246-2253
CompactionStage(com, rankdir, cfg) ==
    IF com.moved
    THEN RerouteAndMeasure(enforceSpatialConstraints(com.ir, cfg, 8).ir, rankdir)
    ELSE com.ir

\* one pass of the loop body up to the score (2217-2254)
RestartCandidateLayout(ir, baseState, candidate, rankdir, pinnedNodeIds, cfg, drift) ==
    CHOOSE out \in
        {CompactionStage(com, rankdir, cfg) :
         com \in {compactLayoutDensity(collided, rankdir, cfg, 9) :
         collided \in {CollisionStage(col, rankdir, cfg) :
         col \in {resolveAllNodeCollisions(separated, CollisionGap(cfg), 3) :
         separated \in {AfterMove(sep, rankdir) :
         sep \in {enforceTopLevelSubgraphSeparation(routed, cfg, 8) :
         routed \in {RerouteAndMeasure(placed, rankdir) :
         placed \in {optimizeNodePlacement(jittered, rankdir, pinnedNodeIds, cfg, drift) :
         jittered \in {JitteredCandidate(restoreLayoutState(ir, baseState), candidate,
                                         rankdir, pinnedNodeIds, cfg)}}}}}}}}} : TRUE

\* the follow-up applyLayout runs when a pass returned true
AfterCorrection(r, rankdir, cfg) ==
    IF r.moved THEN Reroute(enforceSpatialConstraints(r.ir, cfg, 10).ir, rankdir) ELSE r.ir

\* 2399: compaction runs on what the collision pass left
CompactAfter(sep, col, rankdir, cfg) ==
    [sep |-> sep.moved, col |-> col.moved, com |-> compactLayoutDensity(col.ir, rankdir, cfg, 10)]

\* 2400-2404
ConstrainAfter(p, rankdir, cfg) ==
    AfterCorrection([moved |-> p.sep \/ p.col \/ p.com.moved, ir |-> p.com.ir], rankdir, cfg)

CollideAfter(sep, rankdir, cfg) ==
    CompactAfter(sep, resolveAllNodeCollisions(sep.ir, CollisionGap(cfg), 4), rankdir, cfg)

\* lines 2393-2405 of applyLayout: the passes after the restarts
PostRestartPasses(ir, rankdir, cfg) ==
    ConstrainAfter(CollideAfter(enforceTopLevelSubgraphSeparation(ir, cfg, 10), rankdir, cfg),
                   rankdir, cfg)

\* ------------------------------------------------------------------------
\* layout.ts: tuneLayoutForAspect (2513-2571)
\* ------------------------------------------------------------------------
MaxTuneSteps == 4

\* how often in a row the diagram is evaluated
MaxEvaluations == 2

\* |ln(diagramAspect(ir) / target)| in 1/10000. Of a diagram without width
\* it is infinite in the code and the largest value here; either way no trial
\* of such a diagram is closer to the target than another
TuneScore(ir, target) == AspectDeviation(ir, target)

\* the separations of the next trial, or none when the aspect is within 6%
NextSeparations(ir, target, rankdir, candidateNodesep, candidateRanksep) ==
    LET ratio == AspectRatio(ir, target)
        Sep(nodesepPct, ranksepPct) ==
            [retry |-> TRUE,
             nodesep |-> clamp(RoundDiv(candidateNodesep * nodesepPct, 100), 22, 260),
             ranksep |-> clamp(RoundDiv(candidateRanksep * ranksepPct, 100), 40, 380)]
    IN IF ratio.num * 100 > ratio.den * 106
       THEN (IF IsVertical(rankdir) THEN Sep(86, 120) ELSE Sep(120, 86))
       ELSE IF ratio.num * 100 < ratio.den * 94
       THEN (IF IsVertical(rankdir) THEN Sep(116, 88) ELSE Sep(88, 116))
       ELSE [retry |-> FALSE, nodesep |-> candidateNodesep, ranksep |-> candidateRanksep]

\* ------------------------------------------------------------------------
\* patch.ts: the overrides applied after layout. A field of a patch is absent,
\* a finite number, or something else (a string, NaN, an infinity)
\* ------------------------------------------------------------------------
Absent == [kind |-> "absent", v |-> 0]

Num(v) == [kind |-> "number", v |-> v]

NotFinite == [kind |-> "other", v |-> 0]

\* asNumber: <<v>> for a finite number, <<>> for undefined
asNumber(field) == IF field.kind = "number" THEN <<field.v>> ELSE <<>>

\* asNumber(field) ?? fallback
NumberOr(field, fallback) == IF asNumber(field) = <<>> THEN fallback ELSE asNumber(field)[1]

applyNodePositionPatch(node, nodePatch) ==
    [node EXCEPT !.x = NumberOr(nodePatch.x, @) + NumberOr(nodePatch.dx, 0),
                 !.y = NumberOr(nodePatch.y, @) + NumberOr(nodePatch.dy, 0)]

\* the points of a patch that have two finite coordinates (map, then filter)
PatchedPoints(points) ==
    FoldFrom(LAMBDA acc, point :
                 IF asNumber(point.x) = <<>> \/ asNumber(point.y) = <<>> THEN acc
                 ELSE Append(acc, Pt(asNumber(point.x)[1], asNumber(point.y)[1])),
             <<>>, points, 1, Len(points))

applyEdgePatch(edge, edgePatch) ==
    [edge EXCEPT !.points = IF Len(edgePatch.points) > 1
                            THEN PatchedPoints(edgePatch.points) ELSE @,
                 !.labelPosition =
                     IF @ = <<>> THEN @
                     ELSE <<Pt(@[1].x + NumberOr(edgePatch.labelDx, 0),
                               @[1].y + NumberOr(edgePatch.labelDy, 0))>>]

\* a subgraph left as the recomputation from its members made it
applySubgraphPatchSkipped(subgraph, subgraphPatch) == subgraph

applySubgraphPatch(subgraph, subgraphPatch) ==
    [subgraph EXCEPT !.padding = NumberOr(subgraphPatch.padding, @),
                     !.x = NumberOr(subgraphPatch.x, @),
                     !.y = NumberOr(subgraphPatch.y, @),
                     !.width = NumberOr(subgraphPatch.w, @),
                     !.height = NumberOr(subgraphPatch.h, @)]

\* for (const [id, one] of Object.entries(patches)): Apply on the element with
\* that id, entries without such an element skipped
PatchEach(items, patches, Apply(_, _)) ==
    FoldFrom(LAMBDA acc, one :
                 IF IndexOfId(acc, one.id) = 0 THEN acc
                 ELSE [acc EXCEPT ![IndexOfId(acc, one.id)] = Apply(@, one)],
             items, patches, 1, Len(patches))

\* applyPatchPostLayout with a patch: lines 175-210
PatchPostLayout(ir, patch) ==
    With(recomputeSubgraphBounds(
             [ir EXCEPT !.nodes = PatchEach(@, patch.nodes, applyNodePositionPatch),
                        !.edges = PatchEach(@, patch.edges, applyEdgePatch)]),
         LAMBDA sized :
             recomputeBounds([sized EXCEPT
                 !.subgraphs = PatchEach(@, patch.subgraphs, applySubgraphPatch)]))

applyPatchPostLayout(ir, patch) ==
    IF ~patch.given THEN Remeasure(ir) ELSE PatchPostLayout(ir, patch)

\* ------------------------------------------------------------------------
\* The diagrams handed to layoutDiagram (types DiagramIr, IrNode, IrEdge,
\* IrSubgraph). Node sizes are those measureDiagram produces: junctions 2 x 2,
\* other nodes at least 128 x 68.
\* ------------------------------------------------------------------------
Node(id, width, height, subgraphId) ==
    [id |-> id, x |-> 0, y |-> 0, width |-> width, height |-> height,
     isJunction |-> FALSE, subgraphId |-> subgraphId, labelLen |-> 8]

Junction(id) ==
    [id |-> id, x |-> 0, y |-> 0, width |-> 2, height |-> 2,
     isJunction |-> TRUE, subgraphId |-> "", labelLen |-> 0]

Edge(ord, from, to, labelChars, startSide, endSide) ==
    [id |-> ord, ord |-> ord, from |-> from, to |-> to, labelChars |-> labelChars,
     points |-> <<>>, labelPosition |-> <<>>, startSide |-> startSide, endSide |-> endSide]

Subgraph(id, parentId, nodeIds, titleLines) ==
    [id |-> id, parentId |-> parentId, nodeIds |-> nodeIds, x |-> 0, y |-> 0,
     width |-> 0, height |-> 0, padding |-> 24, titleLines |-> titleLines]

Diagram(direction, nodes, edges, subgraphs) ==
    [nodes |-> nodes, edges |-> edges, subgraphs |-> subgraphs, bounds |-> ZeroBounds,
     direction |-> direction, nodesep |-> 50, ranksep |-> 50]

\* a tall node left of a junction and a wide node above it
DgJunction ==
    Diagram("TB",
            <<Node("A", 128, 290, ""), Node("B", 290, 68, ""), Junction("J1")>>,
            <<Edge(1, "A", "J1", 0, "R", "L"), Edge(2, "B", "J1", 0, "B", "T")>>,
            <<>>)

\* one node with a self-loop carrying the given side hints, and a labelled
\* edge to a node that is not in the diagram
DgSelfLoop(startSide, endSide) ==
    Diagram("TB",
            <<Node("S", 128, 68, "")>>,
            <<Edge(1, "S", "S", 4, startSide, endSide), Edge(2, "S", "Z", 4, "", "")>>,
            <<>>)

\* nested subgraphs: P holds A and the subgraph K (holding B); Q, a second
\* top-level subgraph, holds C and the empty subgraph E; D is in no subgraph
DgGroups ==
    Diagram("TB",
            <<Node("A", 128, 68, "P"), Node("B", 128, 68, "K"), Node("C", 128, 68, "Q"),
              Node("D", 128, 68, "")>>,
            <<Edge(1, "A", "B", 0, "", ""), Edge(2, "B", "C", 5, "", ""),
              Edge(3, "C", "D", 0, "", "")>>,
            <<Subgraph("P", "", <<"A">>, 1), Subgraph("K", "P", <<"B">>, 1),
              Subgraph("Q", "", <<"C">>, 0), Subgraph("E", "Q", <<>>, 1)>>)

\* two nodes and two edges, laid out left to right
DgPair ==
    Diagram("LR",
            <<Node("A", 128, 68, ""), Node("B", 160, 68, "")>>,
            <<Edge(1, "A", "B", 6, "", ""), Edge(2, "B", "A", 0, "", "")>>,
            <<>>)

\* a junction above three ranks of one, two and five nodes, the last node
\* wider than the others, and an edge from the third rank back to the first
DgQuadrants ==
    Diagram("TB",
            <<Junction("J1"), Node("A", 128, 68, ""), Node("B", 128, 68, ""),
              Node("C", 128, 68, ""), Node("D", 128, 68, ""), Node("E", 128, 68, ""),
              Node("F", 128, 68, ""), Node("G", 128, 68, ""), Node("H", 136, 68, "")>>,
            <<Edge(1, "J1", "A", 0, "", ""), Edge(2, "A", "B", 0, "", ""),
              Edge(3, "A", "C", 0, "", ""), Edge(4, "B", "D", 0, "", ""),
              Edge(5, "B", "E", 0, "", ""), Edge(6, "B", "F", 0, "", ""),
              Edge(7, "B", "G", 0, "", ""), Edge(8, "B", "H", 0, "", ""),
              Edge(9, "E", "A", 0, "", "")>>,
            <<>>)

\* a node pinned to the left of a junction, next to three nodes that are free
DgPinned ==
    Diagram("TB",
            <<Junction("J1"), Node("A", 128, 68, ""), Node("B", 128, 68, ""),
              Node("C", 160, 68, ""), Node("D", 128, 68, "")>>,
            <<Edge(1, "A", "J1", 0, "R", "L"), Edge(2, "J1", "B", 0, "", ""),
              Edge(3, "B", "C", 3, "", ""), Edge(4, "B", "D", 0, "", "")>>,
            <<>>)

\* two edges down the ranks: one told to start at the top of its from-node,
\* one told to end at the bottom of its to-node
DgHinted ==
    Diagram("TB",
            <<Node("A", 128, 68, ""), Node("B", 128, 68, ""),
              Node("C", 128, 68, ""), Node("D", 128, 68, "")>>,
            <<Edge(1, "A", "B", 0, "T", ""), Edge(2, "C", "D", 0, "", "B")>>,
            <<>>)

\* references that lead nowhere: S is its own parent, U names a parent and a
\* member node that do not exist, V names no other member, C names a subgraph
\* that does not exist, and the last edge ends at a node that does not exist
DgLoose ==
    Diagram("TB",
            <<Node("A", 128, 68, "S"), Node("B", 128, 68, "U"), Node("C", 128, 68, "Missing")>>,
            <<Edge(1, "A", "B", 0, "", ""), Edge(2, "B", "C", 0, "", ""),
              Edge(3, "C", "Z", 0, "", "")>>,
            <<Subgraph("S", "S", <<"A">>, 1), Subgraph("U", "Nope", <<"B", "Gone">>, 1),
              Subgraph("V", "", <<"Gone">>, 0)>>)

\* two nodes of one size and one edge down the ranks
DgTwo ==
    Diagram("TB",
            <<Node("A", 128, 68, ""), Node("B", 128, 68, "")>>,
            <<Edge(1, "A", "B", 0, "", "")>>,
            <<>>)

\* nothing at all
DgEmpty == Diagram("TB", <<>>, <<>>, <<>>)

\* two subgraphs that name each other as parent
DgCycle ==
    Diagram("TB",
            <<Node("A", 128, 68, "X"), Node("B", 128, 68, "Y")>>,
            <<Edge(1, "A", "B", 0, "", "")>>,
            <<Subgraph("X", "Y", <<"A">>, 1), Subgraph("Y", "X", <<"B">>, 1)>>)

\* options.patch (type DiagramPatch): none, or overrides by id for nodes,
\* edges and subgraphs
NoPatch == [given |-> FALSE, nodes |-> <<>>, edges |-> <<>>, subgraphs |-> <<>>]

NodePatch(id, x, y, dx, dy) == [id |-> id, x |-> x, y |-> y, dx |-> dx, dy |-> dy]

EdgePatch(id, points, labelDx, labelDy) ==
    [id |-> id, points |-> points, labelDx |-> labelDx, labelDy |-> labelDy]

SubgraphPatch(id, padding, x, y, w, h) ==
    [id |-> id, padding |-> padding, x |-> x, y |-> y, w |-> w, h |-> h]

\* absolute positions, a route far outside the layout, and rectangles that
\* do not hold the members
PatchAbsolute ==
    [given |-> TRUE,
     nodes |-> <<NodePatch("A", Num(300), Num(-120), Absent, Absent),
                 NodePatch("S", Num(-150), Absent, Absent, Absent)>>,
     edges |-> <<EdgePatch(1, <<Pt(Num(-200), Num(40)), Pt(Num(500), Num(600))>>,
                           Absent, Absent)>>,
     subgraphs |-> <<SubgraphPatch("P", Absent, Num(-300), Num(-250), Num(50), Num(60)),
                     SubgraphPatch("E", Absent, Num(700), Absent, Num(100), Absent),
                     SubgraphPatch("S", Absent, Absent, Num(650), Absent, Num(10))>>]

\* relative moves, alone and on top of an absolute position, a label moved,
\* a padding
PatchRelative ==
    [given |-> TRUE,
     nodes |-> <<NodePatch("A", Absent, Absent, Num(40), Num(-25)),
                 NodePatch("B", Num(7), Num(9), Num(3), Absent)>>,
     edges |-> <<EdgePatch(1, <<>>, Num(12), Num(-8)),
                 EdgePatch(2, <<Pt(Num(5), Num(5)), Pt(NotFinite, Num(1)), Pt(Num(-250), Num(6))>>,
                           Num(4), Absent)>>,
     subgraphs |-> <<SubgraphPatch("Q", Num(10), Absent, Absent, Absent, Absent),
                     SubgraphPatch("K", Absent, Absent, Absent, Num(0), Num(0))>>]

\* values that are no finite numbers, ids that do not exist, a route of one
\* point and a route without a valid point
PatchLoose ==
    [given |-> TRUE,
     nodes |-> <<NodePatch("A", NotFinite, Num(77), Absent, NotFinite),
                 NodePatch("Nobody", Num(1), Num(1), Absent, Absent)>>,
     edges |-> <<EdgePatch(1, <<Pt(Num(-500), Num(-500))>>, Absent, Absent),
                 EdgePatch(2, <<Pt(NotFinite, Num(1)), Pt(Num(1), Absent)>>, Absent, Absent),
                 EdgePatch(99, <<Pt(Num(1), Num(1)), Pt(Num(2), Num(2))>>, Absent, Absent)>>,
     subgraphs |-> <<SubgraphPatch("P", Absent, Absent, Absent, NotFinite, Num(400)),
                     SubgraphPatch("Nowhere", Absent, Num(1), Num(1), Num(1), Num(1))>>]

Patches == {NoPatch, PatchAbsolute, PatchRelative, PatchLoose}

SideHints == {""} \cup Range(EDGE_SIDES)

Diagrams ==
    {DgJunction, DgGroups, DgPair, DgQuadrants, DgPinned, DgHinted, DgLoose, DgCycle,
     DgEmpty, DgTwo}
        \cup {DgSelfLoop(s, e) : s \in SideHints, e \in SideHints}

\* options.targetAspectRatio: absent, or a ratio (4:3, 16:9, and 1:1 which
\* clampAspect raises to 4:3)
NoTarget == [num |-> 0, den |-> 1]

TargetAspectRatios == {NoTarget, [num |-> 4, den |-> 3], [num |-> 16, den |-> 9],
                       [num |-> 1, den |-> 1]}

\* ------------------------------------------------------------------------
\* State
\* ------------------------------------------------------------------------
VARIABLES
    ir,          \* the diagram being laid out (mutated in place by the code)
    input,       \* the diagram as handed to layoutDiagram
    options,     \* options.targetAspectRatio
    target,      \* the targetAspectRatio argument of applyLayout
    pc,          \* position in layoutDiagram / tuneLayoutForAspect / applyLayout
    cfg,         \* effectiveLayout of the running applyLayout
    pinned,      \* movedByJunction
    mirrored,    \* the order dagre gives the nodes of a rank for this diagram
    drift,       \* displacement optimizeNodePlacement produces for this diagram
    restarts,    \* locals of optimizeLayoutWithRestarts
    evaluated,   \* the candidates scored so far by the running restart loop
    probe,       \* the last speculative correction: what it saw and returned
    tune,        \* locals of tuneLayoutForAspect
    post,        \* applyPatchPostLayout: its patch and the diagram it was handed
    quality,     \* the evaluateReadability calls: their results, the diagram at the first
    build        \* runBuild of the command line: its request, position and effects so far

vars == <<ir, input, options, target, pc, cfg, pinned, mirrored, drift, restarts, evaluated,
          probe, tune, post, quality, build>>

\* ------------------------------------------------------------------------
\* cli.ts: the build command (runBuild, 133-224)
\* ------------------------------------------------------------------------
MaxInputs == 2

\* the --renderer option as typed; Undefined when the option is absent
Undefined == "undefined"

RendererOptions == {Undefined, "auto", "python", " Python ", "JS", "js", "svg", ""}

\* String(input ?? "auto").trim().toLowerCase() on the options above
normalizeRendererOption(option) ==
    IF option = Undefined THEN "auto"
    ELSE IF option = " Python " THEN "python"
    ELSE IF option = "JS" THEN "js"
    ELSE option

\* resolveRenderer (120-131): "python" or "js", or Unknown where it throws
Unknown == "unknown"

resolveRenderer(option, hasUv) ==
    LET renderer == normalizeRendererOption(option)
    IN IF renderer \in {"python", "js"} THEN renderer
       ELSE IF renderer # "auto" THEN Unknown
       ELSE IF hasUv THEN "python" ELSE "js"

\* an input file: whether it can be read and whether it is a sequenceDiagram
InputFiles == [readable : BOOLEAN, sequence : BOOLEAN]

InputLists == UNION {[1..n -> InputFiles] : n \in 0..MaxInputs}

\* opts.patch: not given, a file that parses, or a file that cannot be read
PatchOptions == {Undefined, "patch.yml", "missing.yml"}

BuildRequests ==
    [inputs : InputLists, patch : PatchOptions, irOut : BOOLEAN,
     renderer : RendererOptions, hasUv : BOOLEAN]

NoRequest == [inputs |-> <<>>, patch |-> Undefined, irOut |-> FALSE,
              renderer |-> Undefined, hasUv |-> FALSE]

NoBuild == [request |-> NoRequest, pc |-> "idle", index |-> 0, renderer |-> Unknown,
            effects |-> <<>>, error |-> ""]

Effect(op, what) == [op |-> op, what |-> what]

\* the checks of 134-162 that refuse a request with several inputs, ignoring --ir-out
MultiInputErrorLoose(request, renderer) ==
    IF Len(request.inputs) <= 1 THEN ""
    ELSE IF renderer # "python" THEN "Multiple input files require python renderer."
    ELSE ""

\* 155-160: what a request with several inputs is refused for after the
\* renderer is resolved
MultiInputError(request, renderer) ==
    IF Len(request.inputs) <= 1 THEN ""
    ELSE IF renderer # "python" THEN "Multiple input files require python renderer."
    ELSE IF request.irOut THEN "--ir-out is not supported when multiple input files are provided."
    ELSE ""

\* 134-165: runBuild up to its loop over the inputs
RunBuildChecks ==
    /\ build.pc = "runBuild"
    /\ LET request == build.request
           multiInput == Len(request.inputs) > 1
           renderer == resolveRenderer(request.renderer, request.hasUv)
           readPatch == IF request.patch # Undefined /\ ~multiInput
                        THEN <<Effect("read", request.patch)>> ELSE <<>>
           which == IF normalizeRendererOption(request.renderer) = "auto"
                    THEN <<Effect("spawn", "which uv")>> ELSE <<>>
           Fail(effects, error) ==
               build' = [build EXCEPT !.pc = "failed", !.effects = effects, !.error = error]
       IN IF Len(request.inputs) = 0
          THEN Fail(<<>>, "At least one input .mmd file is required.")
          ELSE IF request.patch # Undefined /\ multiInput
          THEN Fail(<<>>, "--patch is not supported when multiple input files are provided.")
          ELSE IF request.patch = "missing.yml"
          THEN Fail(readPatch, "ENOENT")
          ELSE IF renderer = Unknown
          THEN Fail(readPatch, "Unknown renderer")
          ELSE IF MultiInputError(request, renderer) # ""
          THEN Fail(readPatch \o which, MultiInputError(request, renderer))
          ELSE build' = [build EXCEPT
                            !.pc = "inputs", !.index = 1, !.renderer = renderer,
                            !.effects = readPatch \o which \o
                                (IF normalizeRendererOption(request.renderer) = "auto"
                                 THEN <<Effect("stdout", "Renderer(auto)")>> ELSE <<>>)]
    /\ UNCHANGED <<ir, input, options, target, pc, cfg, pinned, mirrored, drift, restarts,
                   evaluated, probe, tune, post, quality>>

\* 167-217: one round of the loop over the inputs
RunBuildInput ==
    /\ build.pc = "inputs"
    /\ build.index <= Len(build.request.inputs)
    /\ LET request == build.request
           file == request.inputs[build.index]
           multiInput == Len(request.inputs) > 1
           appendToPath == multiInput /\ build.index > 1
           read == <<Effect("read", build.index)>>
           writeIr == IF request.irOut THEN <<Effect("write", "irOut")>> ELSE <<>>
           how == IF appendToPath THEN "append" ELSE "create"
       IN IF ~file.readable
          THEN build' = [build EXCEPT !.pc = "failed", !.effects = @ \o read,
                                      !.error = "ENOENT"]
          ELSE IF file.sequence /\ build.renderer # "python"
          THEN build' = [build EXCEPT !.pc = "failed", !.effects = @ \o read,
                                      !.error = "sequenceDiagram currently supports only python renderer"]
          ELSE IF file.sequence
          THEN build' = [build EXCEPT !.index = @ + 1,
                                      !.effects = @ \o read
                                          \o <<Effect("render", how)>> \o writeIr]
          ELSE build' = [build EXCEPT !.index = @ + 1,
                                      !.effects = @ \o read
                                          \o <<Effect("compile", build.index)>> \o writeIr
                                          \o <<Effect("render",
                                                      IF build.renderer = "js" THEN "create"
                                                      ELSE how)>>]
    /\ UNCHANGED <<ir, input, options, target, pc, cfg, pinned, mirrored, drift, restarts,
                   evaluated, probe, tune, post, quality>>

\* 219-223: the report after the loop
RunBuildReport ==
    /\ build.pc = "inputs"
    /\ build.index > Len(build.request.inputs)
    /\ build' = [build EXCEPT !.pc = "built",
                              !.effects = @ \o <<Effect("stdout", "Generated")>>
                                  \o (IF build.request.irOut
                                      THEN <<Effect("stdout", "IR JSON")>> ELSE <<>>)]
    /\ UNCHANGED <<ir, input, options, target, pc, cfg, pinned, mirrored, drift, restarts,
                   evaluated, probe, tune, post, quality>>

rankdirOf == toRankdir(ir.direction)

NoProbe == [fn |-> "none", entry |-> captureLayoutState(input), moved |-> FALSE,
            tried |-> FALSE, before |-> 0, after |-> 0]

\* the state before layoutDiagram is called on one of the diagrams
Constructed(diagrams, ratios) ==
    /\ input \in diagrams
    /\ options \in ratios
    /\ ir = input
    /\ target = NoTarget
    /\ pc = "layoutDiagram"
    /\ cfg = [nodesep |-> input.nodesep, ranksep |-> input.ranksep]
    /\ pinned = {}
    /\ mirrored = FALSE
    /\ drift = 0
    /\ restarts = [baseState |-> captureLayoutState(input),
                   bestState |-> captureLayoutState(input),
                   bestScore |-> 0, hasBest |-> FALSE,
                   candidate |-> 0, candidateCount |-> 0]
    /\ evaluated = <<>>
    /\ probe = NoProbe
    /\ tune = [active |-> FALSE, step |-> 0, bestState |-> captureLayoutState(input),
               bestNodesep |-> input.nodesep, bestRanksep |-> input.ranksep,
               bestScore |-> 0, candidateNodesep |-> input.nodesep,
               candidateRanksep |-> input.ranksep, trials |-> <<>>]
    /\ post = [patch |-> NoPatch, entry |-> input]
    /\ quality = [entry |-> input, results |-> <<>>]

Init ==
    /\ Constructed(Diagrams, TargetAspectRatios)
    /\ build = NoBuild

\* the build command is started with some request; no diagram is compiled yet
BuildInit ==
    /\ Constructed({DgEmpty}, {NoTarget})
    /\ build \in {[NoBuild EXCEPT !.request = request, !.pc = "runBuild"] :
                     request \in BuildRequests}

\* layoutDiagram: tune when a target aspect ratio is given, else applyLayout(ir).
\* dagre and optimizeNodePlacement are deterministic: what they do to this
\* diagram is drawn once and holds for every applyLayout of the call
LayoutDiagram ==
    /\ pc = "layoutDiagram"
    /\ pc' = "applyLayout"
    /\ target' = IF options.num # 0 THEN clampAspect(options) ELSE NoTarget
    /\ tune' = [tune EXCEPT !.active = options.num # 0]
    /\ \E m \in BOOLEAN, d \in 0..MaxDrift : mirrored' = m /\ drift' = d
    /\ UNCHANGED <<ir, input, options, build, post, quality, cfg, pinned, restarts, evaluated, probe>>

\* applyLayout up to the start of the restart loop: effective config, dagre,
\* junction side placement, and the first lines of optimizeLayoutWithRestarts
ApplyLayoutPlace ==
    /\ pc = "applyLayout"
    /\ ~SetParentThrows(ir)
    /\ \E effectiveLayout \in {resolveReadableLayoutConfig(ir)} :
          \E junction \in {enforceJunctionSidePlacement(
                               DagrePlace(ir, effectiveLayout, rankdirOf, mirrored))} :
             /\ cfg' = effectiveLayout
             /\ ir' = junction.ir
             /\ pinned' = junction.moved
             /\ restarts' = [baseState |-> captureLayoutState(junction.ir),
                             bestState |-> captureLayoutState(junction.ir),
                             bestScore |-> 0, hasBest |-> FALSE,
                             candidate |-> 0,
                             candidateCount |-> candidateCountOf(junction.ir)]
    /\ evaluated' = <<>>
    /\ probe' = NoProbe
    /\ pc' = "restarts"
    /\ UNCHANGED <<input, options, build, post, quality, target, mirrored, drift, tune>>

\* applyLayout when graph.setParent throws: the error leaves applyLayout and
\* layoutDiagram, the diagram as it was
ApplyLayoutThrow ==
    /\ pc = "applyLayout"
    /\ SetParentThrows(ir)
    /\ pc' = "threw"
    /\ UNCHANGED <<ir, input, options, build, post, quality, target, cfg, pinned, mirrored, drift, restarts,
                   evaluated, probe, tune>>

\* overlap area of the node rectangles themselves
NodeOverlap(nodes) == PairOverlapSum(nodes, NonJunctionIdx(nodes), 0)

\* one iteration of the restart loop
RestartCandidate ==
    /\ pc = "restarts"
    /\ restarts.candidate < restarts.candidateCount
    /\ \E laid \in {RestartCandidateLayout(ir, restarts.baseState, restarts.candidate,
                                           rankdirOf, pinned, cfg, drift)} :
       \E score \in {scoreLayoutQuality(laid, rankdirOf, cfg)} :
       \E better \in {~restarts.hasBest \/ score < restarts.bestScore} :
          /\ ir' = laid
          /\ restarts' = [restarts EXCEPT
                             !.candidate = @ + 1,
                             !.hasBest = TRUE,
                             !.bestScore = IF better THEN score ELSE @,
                             !.bestState = IF better THEN captureLayoutState(laid) ELSE @]
          /\ evaluated' = Append(evaluated, [score |-> score,
                                             state |-> captureLayoutState(laid),
                                             overlap |-> NodeOverlap(laid.nodes)])
    /\ UNCHANGED <<input, options, build, post, quality, target, pc, cfg, pinned, mirrored, drift, probe, tune>>

\* end of optimizeLayoutWithRestarts: restoreLayoutState(ir, bestState)
RestartsDone ==
    /\ pc = "restarts"
    /\ restarts.candidate >= restarts.candidateCount
    /\ ir' = restoreLayoutState(ir, restarts.bestState)
    /\ pc' = "postPasses"
    /\ UNCHANGED <<input, options, build, post, quality, target, cfg, pinned, mirrored, drift, restarts, evaluated, probe, tune>>

PostPasses ==
    /\ pc = "postPasses"
    /\ ir' = PostRestartPasses(ir, rankdirOf, cfg)
    /\ pc' = "skew"
    /\ UNCHANGED <<input, options, build, post, quality, target, cfg, pinned, mirrored, drift, restarts, evaluated, probe, tune>>

SkewStep ==
    /\ pc = "skew"
    /\ \E r \in {reduceDiagonalSkew(ir, rankdirOf, cfg)} :
          /\ ir' = AfterCorrection(r, rankdirOf, cfg)
          /\ probe' = [fn |-> "reduceDiagonalSkew", entry |-> captureLayoutState(ir),
                       moved |-> r.moved, tried |-> r.tried,
                       before |-> r.before, after |-> r.after]
    /\ pc' = "quadrant"
    /\ UNCHANGED <<input, options, build, post, quality, target, cfg, pinned, mirrored, drift, restarts, evaluated, tune>>

QuadrantStep ==
    /\ pc = "quadrant"
    /\ \E r \in {rebalanceQuadrantCoverage(ir, rankdirOf, cfg)} :
          /\ ir' = AfterCorrection(r, rankdirOf, cfg)
          /\ probe' = [fn |-> "rebalanceQuadrantCoverage", entry |-> captureLayoutState(ir),
                       moved |-> r.moved, tried |-> r.tried,
                       before |-> r.before, after |-> r.after]
    /\ pc' = "promote"
    /\ UNCHANGED <<input, options, build, post, quality, target, cfg, pinned, mirrored, drift, restarts, evaluated, tune>>

PromoteStep ==
    /\ pc = "promote"
    /\ \E r \in {promoteUnderfilledQuadrant(ir, rankdirOf, cfg)} :
          /\ ir' = AfterCorrection(r, rankdirOf, cfg)
          /\ probe' = [fn |-> "promoteUnderfilledQuadrant", entry |-> captureLayoutState(ir),
                       moved |-> r.moved, tried |-> r.tried, before |-> 0, after |-> 0]
    /\ pc' = "fit"
    /\ UNCHANGED <<input, options, build, post, quality, target, cfg, pinned, mirrored, drift, restarts, evaluated, tune>>

\* the last lines of applyLayout: the aspect fit when a target was given, then
\* recomputeSubgraphBounds and recomputeBounds
FitStep ==
    /\ pc = "fit"
    /\ target.num # 0
    /\ \E r \in {fitLayoutToTargetAspect(ir, target, rankdirOf, cfg, 9)} :
          /\ ir' = Remeasure(r.ir)
          /\ probe' = [fn |-> "fitLayoutToTargetAspect", entry |-> captureLayoutState(ir),
                       moved |-> r.moved, tried |-> r.tried, before |-> 0, after |-> 0]
    /\ pc' = "applied"
    /\ UNCHANGED <<input, options, build, post, quality, target, cfg, pinned, mirrored, drift, restarts, evaluated, tune>>

FinishApply ==
    /\ pc = "fit"
    /\ target.num = 0
    /\ ir' = Remeasure(ir)
    /\ pc' = "applied"
    /\ UNCHANGED <<input, options, build, post, quality, target, cfg, pinned, mirrored, drift, restarts, evaluated, probe, tune>>

\* a comparison that keeps the latest trial
KeepLatest(t, trial, score) ==
    [t EXCEPT !.bestScore = score, !.bestState = captureLayoutState(trial),
              !.bestNodesep = trial.nodesep, !.bestRanksep = trial.ranksep]

\* tuneLayoutForAspect: the trial becomes the best one when it is the first or
\* closer to the target than the best so far
KeepCloser(t, trial, score) ==
    IF t.step = 0 \/ score < t.bestScore
    THEN [t EXCEPT !.bestScore = score, !.bestState = captureLayoutState(trial),
                   !.bestNodesep = trial.nodesep, !.bestRanksep = trial.ranksep]
    ELSE t

\* layoutDiagram without a target: applyLayout was the whole call
LayoutReturn ==
    /\ pc = "applied"
    /\ ~tune.active
    /\ pc' = "done"
    /\ UNCHANGED <<ir, input, options, build, post, quality, target, cfg, pinned, mirrored, drift, restarts, evaluated, probe, tune>>

\* the record of the trials of tuneLayoutForAspect: what each applyLayout
\* left, its score and the separations it ran with (the first layout and at
\* most MaxTuneSteps more)
Tried(t, trial, score) ==
    [t EXCEPT !.trials = IF Len(@) > MaxTuneSteps THEN @
                         ELSE Append(@, [score |-> score,
                                         state |-> captureLayoutState(trial),
                                         nodesep |-> trial.nodesep,
                                         ranksep |-> trial.ranksep])]

\* a loop counter that does not advance
NextTuneStepStuck(step) == step

\* the loop counter of tuneLayoutForAspect after one more trial
NextTuneStep(step) == step + 1

\* tuneLayoutForAspect after an applyLayout returned: keep the result when it
\* is the first or the closest to the target so far, then either start the
\* next trial with new separations or leave the loop
TuneStep ==
    /\ pc = "applied"
    /\ tune.active
    /\ \E kept \in {Tried(KeepCloser(tune, ir, TuneScore(ir, target)), ir,
                           TuneScore(ir, target))},
          next \in {NextSeparations(ir, target, rankdirOf,
                                    tune.candidateNodesep, tune.candidateRanksep)} :
          IF tune.step <= MaxTuneSteps - 1 /\ next.retry
          THEN /\ tune' = [kept EXCEPT !.step = NextTuneStep(@),
                                       !.candidateNodesep = next.nodesep,
                                       !.candidateRanksep = next.ranksep]
               /\ ir' = [ir EXCEPT !.nodesep = next.nodesep, !.ranksep = next.ranksep]
               /\ pc' = "applyLayout"
          ELSE /\ tune' = kept
               /\ ir' = ir
               /\ pc' = "tuned"
    /\ UNCHANGED <<input, options, build, post, quality, target, cfg, pinned, mirrored, drift, restarts, evaluated, probe>>

\* the end of tuneLayoutForAspect: restore the best trial and its separations
TuneDone ==
    /\ pc = "tuned"
    /\ ir' = [restoreLayoutState(ir, tune.bestState) EXCEPT
                 !.nodesep = tune.bestNodesep, !.ranksep = tune.bestRanksep]
    /\ pc' = "done"
    /\ UNCHANGED <<input, options, build, post, quality, target, cfg, pinned, mirrored, drift, restarts, evaluated, probe, tune>>

\* compileMmdToIr after layoutDiagram returned: applyPatchPostLayout with
\* options.patch, which nothing read before
ApplyPatchPostLayout ==
    /\ pc = "done"
    /\ \E patch \in Patches :
          /\ post' = [patch |-> patch, entry |-> ir]
          /\ ir' = applyPatchPostLayout(ir, patch)
    /\ pc' = "patched"
    /\ UNCHANGED <<input, options, build, quality, target, cfg, pinned, mirrored, drift, restarts,
                   evaluated, probe, tune>>

\* the caller of compileMmdToIr evaluates the diagram it got: cli.ts line 363,
\* here up to MaxEvaluations times in a row
EvaluateReadability ==
    /\ pc = "patched"
    /\ Len(quality.results) < MaxEvaluations
    /\ \E r \in {evaluateReadability(ir)} :
          /\ ir' = r.ir
          /\ quality' = [entry |-> IF quality.results = <<>> THEN ir ELSE quality.entry,
                         results |-> Append(quality.results,
                                            [penalty |-> r.penalty, score |-> r.score,
                                             metrics |-> r.metrics])]
    /\ UNCHANGED <<input, options, build, post, target, pc, cfg, pinned, mirrored, drift, restarts,
                   evaluated, probe, tune>>

Next ==
    \/ LayoutDiagram
    \/ ApplyLayoutPlace
    \/ ApplyLayoutThrow
    \/ RestartCandidate
    \/ RestartsDone
    \/ PostPasses
    \/ SkewStep
    \/ QuadrantStep
    \/ PromoteStep
    \/ FitStep
    \/ FinishApply
    \/ LayoutReturn
    \/ TuneStep
    \/ TuneDone
    \/ ApplyPatchPostLayout
    \/ EvaluateReadability

Spec == Init /\ [][Next]_vars

\* layoutDiagram has returned or thrown
Returned == pc \in {"done", "patched", "threw"}

\* the positions where the run is over
Ended == pc = "threw" \/ (pc = "patched" /\ Len(quality.results) >= MaxEvaluations)

\* the run is one thread without suspension: a step that can be taken is
\* taken. This is weak fairness of Next, with its enabling condition written
\* out: at every position but those of Ended one of the actions can be
\* taken, whatever the diagram
Fairness == []<>Ended \/ []<><<Next>>_vars

LiveSpec == Init /\ [][Next]_vars /\ Fairness

BuildNext ==
    \/ RunBuildChecks
    \/ RunBuildInput
    \/ RunBuildReport

BuildSpec == BuildInit /\ [][BuildNext]_vars

\* ------------------------------------------------------------------------
\* Properties of layoutDiagram
\* ------------------------------------------------------------------------
\* p lies on the boundary of the rectangle of node, to within one pixel
OnBoundary(p, node) ==
    /\ p.x >= node.x - 1 /\ p.x <= node.x + node.width + 1
    /\ p.y >= node.y - 1 /\ p.y <= node.y + node.height + 1
    /\ \/ Abs(p.x - node.x) <= 1
       \/ Abs(p.x - (node.x + node.width)) <= 1
       \/ Abs(p.y - node.y) <= 1
       \/ Abs(p.y - (node.y + node.height)) <= 1

\* the route of edge starts on its from-node and ends on its to-node
RouteMeetsNodes(nodes, edge, f, t) ==
    /\ Len(edge.points) >= 2
    /\ f # 0 /\ t # 0
    /\ OnBoundary(edge.points[1], nodes[f])
    /\ OnBoundary(edge.points[Len(edge.points)], nodes[t])

\* C1: when layoutDiagram has returned, every edge with a non-empty route has
\* at least 2 route points, the first on the boundary of the rectangle of its
\* from-node and the last on the boundary of the rectangle of its to-node, at
\* the final positions of the nodes
RoutesEndOnNodeBoundaries ==
    pc = "done" =>
        \A k \in DOMAIN ir.edges :
            Len(ir.edges[k].points) > 0 =>
                RouteMeetsNodes(ir.nodes, ir.edges[k], IndexOfId(ir.nodes, ir.edges[k].from),
                                IndexOfId(ir.nodes, ir.edges[k].to))

\* the rectangle r lies inside the rectangle s
Inside(r, s) ==
    /\ r.x >= s.x /\ r.y >= s.y
    /\ r.x + r.width <= s.x + s.width
    /\ r.y + r.height <= s.y + s.height

\* the subgraph at index k of d has an existing member node, or a child
\* subgraph that has (depth: the nesting still looked into)
RECURSIVE NonEmptySubgraph(_, _, _)
NonEmptySubgraph(d, k, depth) ==
    \/ \E m \in DOMAIN d.subgraphs[k].nodeIds :
          IndexOfId(d.nodes, d.subgraphs[k].nodeIds[m]) # 0
    \/ /\ depth > 0
       /\ \E c \in DOMAIN d.subgraphs :
             /\ c # k
             /\ d.subgraphs[c].parentId = d.subgraphs[k].id
             /\ NonEmptySubgraph(d, c, depth - 1)

\* every existing node listed in the subgraph at index k lies inside its rectangle
HoldsMembers(d, k) ==
    \A m \in DOMAIN d.subgraphs[k].nodeIds :
        IndexOfId(d.nodes, d.subgraphs[k].nodeIds[m]) # 0 =>
            Inside(d.nodes[IndexOfId(d.nodes, d.subgraphs[k].nodeIds[m])], d.subgraphs[k])

\* the children of the subgraph at index k
ChildrenAt(d, k) ==
    {c \in DOMAIN d.subgraphs : c # k /\ d.subgraphs[c].parentId = d.subgraphs[k].id}

\* C2 as stated: when layoutDiagram has returned, every subgraph that has an
\* existing member node or a non-empty child subgraph contains the rectangle
\* of every node it lists and the rectangle of every subgraph whose parent it is
SubgraphsContainMembersAndChildren ==
    pc = "done" =>
        \A k \in DOMAIN ir.subgraphs :
            NonEmptySubgraph(ir, k, Len(ir.subgraphs)) =>
                /\ HoldsMembers(ir, k)
                /\ \A c \in ChildrenAt(ir, k) : Inside(ir.subgraphs[c], ir.subgraphs[k])

\* C2, amended: when layoutDiagram has returned, every subgraph that has an
\* existing member node or a non-empty child subgraph contains the rectangle
\* of every node it lists and the rectangle of every non-empty subgraph whose
\* parent it is (an empty child subgraph is skipped and keeps its old rectangle)
SubgraphsContainMembersAndNonEmptyChildren ==
    pc = "done" =>
        \A k \in DOMAIN ir.subgraphs :
            NonEmptySubgraph(ir, k, Len(ir.subgraphs)) =>
                /\ HoldsMembers(ir, k)
                /\ \A c \in ChildrenAt(ir, k) :
                      NonEmptySubgraph(ir, c, Len(ir.subgraphs)) =>
                          Inside(ir.subgraphs[c], ir.subgraphs[k])

\* a returned layout whose nodes were moved, with a subgraph that contains its
\* non-empty child, and a subgraph with a member node whose child is empty
NestedSubgraphsLaidOut ==
    /\ pc = "done"
    /\ \E k \in DOMAIN ir.subgraphs :
          /\ ir.subgraphs[k].nodeIds # <<>>
          /\ \E c \in ChildrenAt(ir, k) : NonEmptySubgraph(ir, c, Len(ir.subgraphs))
    /\ \E k \in DOMAIN ir.subgraphs :
          /\ NonEmptySubgraph(ir, k, Len(ir.subgraphs))
          /\ \E c \in ChildrenAt(ir, k) : ~NonEmptySubgraph(ir, c, Len(ir.subgraphs))
    /\ \E n \in DOMAIN ir.nodes : ir.nodes[n].x # input.nodes[n].x

\* C3: layoutDiagram keeps the width and height of every node and neither adds
\* nor removes a node, an edge or a subgraph: the node ids and sizes, the edge
\* ids with their from and to, and the subgraph ids are those of the input
SizesAndIdentitiesKept ==
    /\ Len(ir.nodes) = Len(input.nodes)
    /\ Len(ir.edges) = Len(input.edges)
    /\ Len(ir.subgraphs) = Len(input.subgraphs)
    /\ \A k \in DOMAIN ir.nodes :
          /\ ir.nodes[k].id = input.nodes[k].id
          /\ ir.nodes[k].width = input.nodes[k].width
          /\ ir.nodes[k].height = input.nodes[k].height
    /\ \A k \in DOMAIN ir.edges :
          /\ ir.edges[k].id = input.edges[k].id
          /\ ir.edges[k].from = input.edges[k].from
          /\ ir.edges[k].to = input.edges[k].to
    /\ \A k \in DOMAIN ir.subgraphs : ir.subgraphs[k].id = input.subgraphs[k].id

\* a returned layout that moved a node and routed an edge, after a restored
\* snapshot replaced the last candidate
LaidOutAfterRestore ==
    /\ pc = "done"
    /\ \E n \in DOMAIN ir.nodes : ir.nodes[n].x # input.nodes[n].x
    /\ \E k \in DOMAIN ir.edges : Len(ir.edges[k].points) >= 2
    /\ Len(evaluated) >= 2
    /\ restarts.bestState # evaluated[Len(evaluated)].state

\* the sides of the rectangle of node on which the point p lies
SidesAt(p, node) ==
    {side \in Range(EDGE_SIDES) :
        /\ p.x >= node.x /\ p.x <= node.x + node.width
        /\ p.y >= node.y /\ p.y <= node.y + node.height
        /\ \/ side = "L" /\ p.x = node.x
           \/ side = "R" /\ p.x = node.x + node.width
           \/ side = "T" /\ p.y = node.y
           \/ side = "B" /\ p.y = node.y + node.height}

\* the self-loop edge on node: two different sides, five points from one side
\* of the node to another, and no segment of zero length
LoopRouted(edge, node) ==
    /\ edge.startSide # edge.endSide
    /\ Len(edge.points) = 5
    /\ \E s \in SidesAt(edge.points[1], node), e \in SidesAt(edge.points[Len(edge.points)], node) :
          s # e
    /\ \A i \in 1..(Len(edge.points) - 1) : edge.points[i] # edge.points[i + 1]

\* C5: when layoutDiagram has returned, every self-loop edge whose node exists
\* has two different sides and a route of exactly 5 points that starts and ends
\* on two different sides of the node, without a segment of zero length, also
\* when the edge came with start and end side hints
SelfLoopsLeaveAndReturn ==
    pc = "done" =>
        \A k \in DOMAIN ir.edges :
            (ir.edges[k].from = ir.edges[k].to /\ IndexOfId(ir.nodes, ir.edges[k].from) # 0) =>
                LoopRouted(ir.edges[k], ir.nodes[IndexOfId(ir.nodes, ir.edges[k].from)])

\* C5 for the self-loops that came without side hints
UnhintedSelfLoopsLeaveAndReturn ==
    pc = "done" =>
        \A k \in DOMAIN ir.edges :
            (/\ ir.edges[k].from = ir.edges[k].to
             /\ IndexOfId(ir.nodes, ir.edges[k].from) # 0
             /\ input.edges[k].startSide = "" /\ input.edges[k].endSide = "") =>
                LoopRouted(ir.edges[k], ir.nodes[IndexOfId(ir.nodes, ir.edges[k].from)])

\* the edge has an endpoint that is no node of the diagram
Dangling(d, edge) == IndexOfId(d.nodes, edge.from) = 0 \/ IndexOfId(d.nodes, edge.to) = 0

\* C6: when layoutDiagram has returned, every edge whose from or to is not the
\* id of an existing node has an empty route and no label position, and every
\* other edge has a route
DanglingEdgesLeftEmpty ==
    pc = "done" =>
        \A k \in DOMAIN ir.edges :
            IF Dangling(ir, ir.edges[k])
            THEN ir.edges[k].points = <<>> /\ ir.edges[k].labelPosition = <<>>
            ELSE Len(ir.edges[k].points) >= 2

\* layoutDiagram returned for a diagram with a labelled edge to a missing node
\* next to a routed edge
DanglingEdgeLaidOut ==
    /\ pc = "done"
    /\ \E k \in DOMAIN ir.edges : Dangling(ir, ir.edges[k]) /\ ir.edges[k].labelChars > 0
    /\ \E k \in DOMAIN ir.edges : ~Dangling(ir, ir.edges[k]) /\ Len(ir.edges[k].points) >= 2

\* C8: when optimizeLayoutWithRestarts has returned, the diagram is the full
\* snapshot (node positions, edge routes, label positions, edge sides, subgraph
\* rectangles, bounds) of one evaluated candidate, no candidate scored lower
\* than that one, and every earlier candidate scored higher
RestartsReturnBestCandidate ==
    pc = "postPasses" =>
        \E i \in DOMAIN evaluated :
            /\ captureLayoutState(ir) = evaluated[i].state
            /\ \A j \in DOMAIN evaluated :
                  /\ evaluated[i].score <= evaluated[j].score
                  /\ j < i => evaluated[i].score < evaluated[j].score

\* optimizeLayoutWithRestarts returned a candidate that is neither the first
\* nor the last one evaluated, and that scored lower than the first
LaterCandidateRestored ==
    /\ pc = "postPasses"
    /\ \E i \in DOMAIN evaluated :
          /\ i > 1 /\ i < Len(evaluated)
          /\ captureLayoutState(ir) = evaluated[i].state
          /\ evaluated[i].score < evaluated[1].score
          /\ evaluated[Len(evaluated)].state # evaluated[i].state

\* the node positions, edge routes, label positions and edge sides of d are
\* those of the snapshot
SameLayout(d, state) ==
    /\ captureLayoutState(d).nodePositions = state.nodePositions
    /\ captureLayoutState(d).edgeRoutes = state.edgeRoutes
    /\ captureLayoutState(d).edgeSides = state.edgeSides

\* the last speculative correction was fn and applyLayout has not gone further
JustReturned(fn, at) == probe.fn = fn /\ pc = at

\* reduceDiagonalSkew or rebalanceQuadrantCoverage has just returned false
SkewOrRebalanceRejected ==
    /\ JustReturned("reduceDiagonalSkew", "quadrant")
       \/ JustReturned("rebalanceQuadrantCoverage", "promote")
    /\ ~probe.moved

SkewKept == probe.fn = "reduceDiagonalSkew" /\ probe.moved

\* C10: whenever reduceDiagonalSkew, rebalanceQuadrantCoverage,
\* promoteUnderfilledQuadrant or fitLayoutToTargetAspect has returned false,
\* every node position, edge route, edge label position and edge start and end
\* side is what it was when the function was entered, however many trials the
\* function made
RejectedCorrectionsLeaveLayout ==
    (/\ ~probe.moved
     /\ \/ JustReturned("reduceDiagonalSkew", "quadrant")
        \/ JustReturned("rebalanceQuadrantCoverage", "promote")
        \/ JustReturned("promoteUnderfilledQuadrant", "fit")
        \/ JustReturned("fitLayoutToTargetAspect", "applied"))
        => SameLayout(ir, probe.entry)

\* reduceDiagonalSkew made its attempts and returned false (so did, in other
\* runs, rebalanceQuadrantCoverage and fitLayoutToTargetAspect)
SkewTriedAndRejected ==
    JustReturned("reduceDiagonalSkew", "quadrant") /\ probe.tried /\ ~probe.moved

RebalanceTriedAndRejected ==
    JustReturned("rebalanceQuadrantCoverage", "promote") /\ probe.tried /\ ~probe.moved

FitTriedAndRejected ==
    JustReturned("fitLayoutToTargetAspect", "applied") /\ probe.tried /\ ~probe.moved

\* the diagram optimizeNodePlacement is given by the next iteration of the
\* restart loop, and what the call leaves
PlacementInput ==
    JitteredCandidate(restoreLayoutState(ir, restarts.baseState), restarts.candidate,
                      rankdirOf, pinned, cfg)

PlacementResult == optimizeNodePlacement(PlacementInput, rankdirOf, pinned, cfg, drift)

PlacementCalled == pc = "restarts" /\ restarts.candidate < restarts.candidateCount

SeparationInput == RerouteAndMeasure(PlacementResult, rankdirOf)

\* the top-level subgraph the node at index k belongs to, directly or through
\* nested subgraphs ("" when there is none)
TopLevelOf(d, k) == findTopLevel(d.subgraphs, d.nodes[k].subgraphId, {})

\* how far the node at index k is from d to out
ShiftOf(d, out, k) == Pt(out.nodes[k].x - d.nodes[k].x, out.nodes[k].y - d.nodes[k].y)

\* from d to out, two nodes of the same top-level subgraph keep their relative
\* offset and a node of no top-level subgraph stays where it is
MovedAsWholes(d, out) ==
    \A m \in DOMAIN d.nodes :
        /\ TopLevelOf(d, m) = "" => ShiftOf(d, out, m) = Pt(0, 0)
        /\ \A n \in DOMAIN d.nodes :
              (TopLevelOf(d, m) # "" /\ TopLevelOf(d, m) = TopLevelOf(d, n))
                  => ShiftOf(d, out, m) = ShiftOf(d, out, n)

\* C15: enforceTopLevelSubgraphSeparation moves nodes only as whole top-level
\* groups: two nodes of the same top-level subgraph (directly or through nested
\* subgraphs) keep their relative offset, and a node of no top-level subgraph
\* is not moved
GroupsMoveAsWholes ==
    PlacementCalled =>
        \A d \in {SeparationInput} :
            \A r \in {enforceTopLevelSubgraphSeparation(d, cfg, 8)} : MovedAsWholes(d, r.ir)

\* from d to out a top-level group moved that has a node of its own and a node
\* of a nested subgraph, and d has a node of no subgraph
NestedMemberMoved(d, out) ==
    /\ \E m, n \in DOMAIN d.nodes :
          /\ m # n
          /\ TopLevelOf(d, m) = TopLevelOf(d, n)
          /\ d.nodes[m].subgraphId = TopLevelOf(d, m)
          /\ d.nodes[n].subgraphId # TopLevelOf(d, n)
          /\ ShiftOf(d, out, m) # Pt(0, 0)
    /\ \E k \in DOMAIN d.nodes : d.nodes[k].subgraphId = ""

\* the call moved such a group and returned true
GroupMovedWithNestedMember ==
    /\ PlacementCalled
    /\ \E d \in {SeparationInput} :
          \E r \in {enforceTopLevelSubgraphSeparation(d, cfg, 8)} :
             r.moved /\ NestedMemberMoved(d, r.ir)

\* the edge at index k joins two different existing nodes, none a junction, and
\* came with a start or an end side
HintedOrdinaryEdge(k) ==
    /\ ~Dangling(ir, ir.edges[k])
    /\ ir.edges[k].from # ir.edges[k].to
    /\ ~ir.nodes[IndexOfId(ir.nodes, ir.edges[k].from)].isJunction
    /\ ~ir.nodes[IndexOfId(ir.nodes, ir.edges[k].to)].isJunction
    /\ input.edges[k].startSide # "" \/ input.edges[k].endSide # ""

\* the sides chooseEdgeSides gives the edge at index k at the present positions
\* when the sides start and end are fixed ("": free), no other edge counted
SidesUnder(k, start, end) ==
    chooseEdgeSides(ir.nodes[IndexOfId(ir.nodes, ir.edges[k].from)],
                    ir.nodes[IndexOfId(ir.nodes, ir.edges[k].to)],
                    rankdirOf, start, end, <<>>, <<>>)

\* the score of a pair of sides for the edge at index k, no other edge counted
ScoreOfSides(k, sides) ==
    SideChoiceScore(ir.nodes[IndexOfId(ir.nodes, ir.edges[k].from)],
                    ir.nodes[IndexOfId(ir.nodes, ir.edges[k].to)],
                    rankdirOf, sides.startSide, sides.endSide, <<>>, <<>>)

\* the best automatic choice scores less than half of the best choice under
\* the hint: better by more than any tolerance on the scores
AutomaticBeatsHint(k) ==
    2 * ScoreOfSides(k, SidesUnder(k, "", ""))
        < ScoreOfSides(k, SidesUnder(k, input.edges[k].startSide, input.edges[k].endSide))

SidesOf(edge) == [startSide |-> edge.startSide, endSide |-> edge.endSide]

HintKept(k) ==
    /\ input.edges[k].startSide # "" => ir.edges[k].startSide = input.edges[k].startSide
    /\ input.edges[k].endSide # "" => ir.edges[k].endSide = input.edges[k].endSide

\* C12 as stated: when layoutDiagram has returned, an ordinary edge that came
\* with a start or end side hint has the hinted side, except that it has the
\* sides of the best automatic choice when that choice scores better than the
\* best choice under the hint by more than a tolerance
HintKeptUnlessAutomaticWins ==
    pc = "done" =>
        \A k \in DOMAIN ir.edges :
            HintedOrdinaryEdge(k) =>
                IF AutomaticBeatsHint(k)
                THEN SidesOf(ir.edges[k]) = SidesUnder(k, "", "")
                ELSE HintKept(k)

\* C12, amended: an ordinary edge that came with a start or end side hint keeps
\* the hinted side, also when the best automatic choice scores better than the
\* best choice under the hint; only a side without a hint is chosen
HintAlwaysKept ==
    \A k \in DOMAIN ir.edges :
        HintedOrdinaryEdge(k) =>
            /\ HintKept(k)
            /\ pc = "done" =>
                  SidesOf(ir.edges[k])
                      = SidesUnder(k, input.edges[k].startSide, input.edges[k].endSide)

\* layoutDiagram returned with a hinted side kept although the automatic choice
\* scores far better, the side without a hint chosen by chooseEdgeSides
HintKeptAgainstAutomatic ==
    /\ pc = "done"
    /\ \E k \in DOMAIN ir.edges :
          /\ HintedOrdinaryEdge(k)
          /\ AutomaticBeatsHint(k)
          /\ HintKept(k)
          /\ ir.edges[k].startSide # "" /\ ir.edges[k].endSide # ""
          /\ SidesOf(ir.edges[k]) # SidesUnder(k, "", "")

\* a subgraph is its own parent or names a parent that does not exist, a node
\* names a subgraph that does not exist, and an edge an endpoint that does not
LooseReferences(d) ==
    /\ \E k \in DOMAIN d.subgraphs : d.subgraphs[k].parentId = d.subgraphs[k].id
    /\ \E k \in DOMAIN d.subgraphs :
          d.subgraphs[k].parentId # "" /\ IndexOfId(d.subgraphs, d.subgraphs[k].parentId) = 0
    /\ \E k \in DOMAIN d.nodes :
          d.nodes[k].subgraphId # "" /\ IndexOfId(d.subgraphs, d.nodes[k].subgraphId) = 0
    /\ \E k \in DOMAIN d.edges : Dangling(d, d.edges[k])

\* C13: every call of layoutDiagram comes to an end, also on diagrams whose
\* subgraphs name themselves or each other as parent and whose nodes, subgraphs
\* and edges name ids that do not exist
LayoutDiagramTerminates == <>Returned

\* layoutDiagram returned on a diagram with a self-parent and with references
\* to a parent, a subgraph and an edge endpoint that do not exist
ReturnedOnLooseReferences == pc = "done" /\ LooseReferences(input)

\* layoutDiagram ended on a diagram whose subgraphs name each other as parent
EndedOnParentCycle ==
    /\ Returned
    /\ \E k, m \in DOMAIN input.subgraphs :
          /\ k # m
          /\ input.subgraphs[k].parentId = input.subgraphs[m].id
          /\ input.subgraphs[m].parentId = input.subgraphs[k].id

\* applyPatchPostLayout has run with a patch
Patched == pc = "patched" /\ post.patch.given

\* the element of items that a patch entry names, as an index (0: none)
Named(items, one) == IndexOfId(items, one.id)

\* a position override is the final position: the absolute value when one is
\* given, else the position the layout computed, moved by the relative value
NodeOverridesFinal ==
    \A k \in DOMAIN post.patch.nodes :
        \A one \in {post.patch.nodes[k]} :
            Named(ir.nodes, one) # 0 =>
                /\ ir.nodes[Named(ir.nodes, one)].x
                       = NumberOr(one.x, post.entry.nodes[Named(ir.nodes, one)].x)
                             + NumberOr(one.dx, 0)
                /\ ir.nodes[Named(ir.nodes, one)].y
                       = NumberOr(one.y, post.entry.nodes[Named(ir.nodes, one)].y)
                             + NumberOr(one.dy, 0)

\* every rectangle field a subgraph patch gives is the final value of the field
SubgraphOverridesFinal ==
    \A k \in DOMAIN post.patch.subgraphs :
        \A one \in {post.patch.subgraphs[k]} :
            Named(ir.subgraphs, one) # 0 =>
                \A sg \in {ir.subgraphs[Named(ir.subgraphs, one)]} :
                    /\ asNumber(one.x) # <<>> => sg.x = one.x.v
                    /\ asNumber(one.y) # <<>> => sg.y = one.y.v
                    /\ asNumber(one.w) # <<>> => sg.width = one.w.v
                    /\ asNumber(one.h) # <<>> => sg.height = one.h.v

\* the rectangle lies inside ir.bounds
BoundsEnclose(rect) ==
    /\ ir.bounds.minX <= rect.x /\ rect.x + rect.width <= ir.bounds.maxX
    /\ ir.bounds.minY <= rect.y /\ rect.y + rect.height <= ir.bounds.maxY

BoundsEncloseAll ==
    /\ \A k \in DOMAIN ir.nodes : BoundsEnclose(ir.nodes[k])
    /\ \A k \in DOMAIN ir.subgraphs : BoundsEnclose(ir.subgraphs[k])
    /\ \A k \in DOMAIN ir.edges :
          \A m \in DOMAIN ir.edges[k].points :
              BoundsEnclose([x |-> ir.edges[k].points[m].x, y |-> ir.edges[k].points[m].y,
                             width |-> 0, height |-> 0])

\* C16: after applyPatchPostLayout with a patch, every node position override
\* and every subgraph rectangle field of the patch is the final value of its
\* field, and the bounds enclose every node rectangle, every subgraph
\* rectangle and every route point, the overridden ones too
OverridesTakePrecedence ==
    Patched => NodeOverridesFinal /\ SubgraphOverridesFinal /\ BoundsEncloseAll

\* a patch moved a node, replaced a route and set a subgraph rectangle that
\* the recomputation from the members would not give
OverridesApplied ==
    /\ Patched
    /\ \E k \in DOMAIN ir.nodes : ir.nodes[k].x # post.entry.nodes[k].x
    /\ \E k \in DOMAIN ir.edges :
          /\ ir.edges[k].points # post.entry.edges[k].points
          /\ \E one \in Range(post.patch.edges) :
                one.id = ir.edges[k].id /\ ir.edges[k].points = PatchedPoints(one.points)
    /\ \E k \in DOMAIN ir.subgraphs :
          /\ \E one \in Range(post.patch.subgraphs) :
                one.id = ir.subgraphs[k].id /\ asNumber(one.x) # <<>>
          /\ ir.subgraphs[k] # recomputeSubgraphBounds(ir).subgraphs[k]

\* recomputeBounds was the last thing to touch the diagram
BoundsRecomputed == pc \in {"applied", "patched"}

\* the left, top, right and bottom ends of everything that has an extent: node
\* rectangles, subgraph rectangles, route points
LeftEnds ==
    {ir.nodes[k].x : k \in DOMAIN ir.nodes} \cup {ir.subgraphs[k].x : k \in DOMAIN ir.subgraphs}
        \cup UNION {{ir.edges[k].points[m].x : m \in DOMAIN ir.edges[k].points} :
                    k \in DOMAIN ir.edges}

TopEnds ==
    {ir.nodes[k].y : k \in DOMAIN ir.nodes} \cup {ir.subgraphs[k].y : k \in DOMAIN ir.subgraphs}
        \cup UNION {{ir.edges[k].points[m].y : m \in DOMAIN ir.edges[k].points} :
                    k \in DOMAIN ir.edges}

RightEnds ==
    {ir.nodes[k].x + ir.nodes[k].width : k \in DOMAIN ir.nodes}
        \cup {ir.subgraphs[k].x + ir.subgraphs[k].width : k \in DOMAIN ir.subgraphs}
        \cup UNION {{ir.edges[k].points[m].x : m \in DOMAIN ir.edges[k].points} :
                    k \in DOMAIN ir.edges}

BottomEnds ==
    {ir.nodes[k].y + ir.nodes[k].height : k \in DOMAIN ir.nodes}
        \cup {ir.subgraphs[k].y + ir.subgraphs[k].height : k \in DOMAIN ir.subgraphs}
        \cup UNION {{ir.edges[k].points[m].y : m \in DOMAIN ir.edges[k].points} :
                    k \in DOMAIN ir.edges}

Least(values, v) == v \in values /\ \A w \in values : v <= w

Greatest(values, v) == v \in values /\ \A w \in values : w <= v

\* C17: after recomputeBounds the bounds are the least and greatest ends of
\* all node rectangles, subgraph rectangles and route points, with
\* width = maxX - minX >= 0 and height = maxY - minY >= 0; of a diagram that
\* has none of them all six fields are 0
BoundsAreExactExtent ==
    BoundsRecomputed =>
        IF LeftEnds = {} THEN ir.bounds = ZeroBounds
        ELSE /\ Least(LeftEnds, ir.bounds.minX) /\ Least(TopEnds, ir.bounds.minY)
             /\ Greatest(RightEnds, ir.bounds.maxX) /\ Greatest(BottomEnds, ir.bounds.maxY)
             /\ ir.bounds.width = ir.bounds.maxX - ir.bounds.minX /\ ir.bounds.width >= 0
             /\ ir.bounds.height = ir.bounds.maxY - ir.bounds.minY /\ ir.bounds.height >= 0

\* the bounds were recomputed and end on the left at a route point and on
\* the right at a subgraph rectangle, no node reaching that far
BoundsSetByRouteAndSubgraph ==
    /\ BoundsRecomputed
    /\ \A k \in DOMAIN ir.nodes :
          ir.bounds.minX < ir.nodes[k].x /\ ir.nodes[k].x + ir.nodes[k].width < ir.bounds.maxX
    /\ \E k \in DOMAIN ir.edges :
          \E m \in DOMAIN ir.edges[k].points : ir.edges[k].points[m].x = ir.bounds.minX
    /\ \E k \in DOMAIN ir.subgraphs :
          ir.subgraphs[k].x + ir.subgraphs[k].width = ir.bounds.maxX

\* the bounds of a diagram without nodes, subgraphs and route points were
\* recomputed
BoundsOfEmptyDiagram == BoundsRecomputed /\ LeftEnds = {} /\ ir.bounds = ZeroBounds

\* the rectangle of a subgraph
RectOf(sg) == [x |-> sg.x, y |-> sg.y, width |-> sg.width, height |-> sg.height]

\* C18: recomputeSubgraphBounds leaves x, y, width and height of every
\* subgraph without an existing member node and without a non-empty child
\* subgraph as they are; a rectangle is written only from an extent that
\* something entered, so none gets a coordinate that is not finite
EmptySubgraphsSkipped ==
    \A d \in {ir} :
        \A r \in {recomputeSubgraphBounds(d)} :
            \A k \in DOMAIN d.subgraphs :
                ~NonEmptySubgraph(d, k, Len(d.subgraphs)) =>
                    RectOf(r.subgraphs[k]) = RectOf(d.subgraphs[k])

\* recomputeSubgraphBounds on a diagram that has a subgraph without content
\* whose rectangle is not the zero rectangle, and a subgraph with content whose
\* rectangle it changes
EmptySubgraphKeptItsRectangle ==
    \E d \in {ir} :
        \E r \in {recomputeSubgraphBounds(d)} :
            /\ \E k \in DOMAIN d.subgraphs :
                  /\ ~NonEmptySubgraph(d, k, Len(d.subgraphs))
                  /\ d.subgraphs[k].width > 0
                  /\ RectOf(r.subgraphs[k]) = RectOf(d.subgraphs[k])
            /\ \E k \in DOMAIN d.subgraphs : RectOf(r.subgraphs[k]) # RectOf(d.subgraphs[k])

Rounding == 2

\* the power of ten with the digits of n: 10^k <= n < 10^(k+1), for n >= 1
RECURSIVE TenFloor(_)
TenFloor(n) == IF n < 10 THEN 1 ELSE 10 * TenFloor(n \div 10)

\* the number of digits of n, less one: floor(log10(n)), for n >= 1
RECURSIVE DigitsLessOne(_)
DigitsLessOne(n) == IF n < 10 THEN 0 ELSE 1 + DigitsLessOne(n \div 10)

\* 100 - 18 * log10(1 + penalty) lies between the values at the powers of ten
\* around 1 + penalty, and is the value at a power of ten when 1 + penalty is
\* one (penalty in tenths, score in hundredths, Rounding hundredths allowed
\* for the rounding of the logarithm)
ScoreInBand(penalty, score) ==
    \A k \in {DigitsLessOne(10 + penalty) - 1} :
        /\ score <= clamp(10000 - 1800 * k + Rounding, 0, 10000)
        /\ score >= clamp(10000 - 1800 * (k + 1) - Rounding, 0, 10000)
        /\ 10 + penalty = TenFloor(10 + penalty)
              => score >= clamp(10000 - 1800 * k - Rounding, 0, 10000)

\* C20: evaluateReadability returns a penalty >= 0 and the score
\* 100 - 18 * log10(1 + penalty) clamped to [0, 100]: the score is 100 exactly
\* when the penalty is 0 and does not rise when the penalty does
ScoreIsClampedLogOfPenalty ==
    \A i \in DOMAIN quality.results :
        \A r \in {quality.results[i]} :
            /\ r.penalty >= 0
            /\ r.score >= 0 /\ r.score <= 10000
            /\ ScoreInBand(r.penalty, r.score)
            /\ r.score = 10000 <=> r.penalty = 0
            /\ ReadabilityScore(0) = 10000
            /\ \A other \in {r.penalty \div 2, r.penalty - 1, r.penalty + 1, 2 * r.penalty,
                             10 * r.penalty} :
                  other >= 0 =>
                      /\ other <= r.penalty => ReadabilityScore(other) >= r.score
                      /\ other >= r.penalty => ReadabilityScore(other) <= r.score

\* a diagram was evaluated with a penalty above 1000 and a score between 0
\* and 100, neither of them the clamp's
ScoredBetweenClamps ==
    \E i \in DOMAIN quality.results :
        /\ quality.results[i].penalty > 10000
        /\ quality.results[i].score > 0 /\ quality.results[i].score < 10000

\* ------------------------------------------------------------------------
\* Directed cycles and backflow
\* ------------------------------------------------------------------------
AllRankdirs == {"TB", "BT", "LR", "RL"}

\* a non-empty set of edges between existing nodes in which every edge is
\* followed and preceded by exactly one edge of the set: one directed cycle
\* or several disjoint ones
IsCycleSet(d, C) ==
    /\ C # {}
    /\ \A e \in C :
        /\ IndexOfId(d.nodes, d.edges[e].from) # 0
        /\ IndexOfId(d.nodes, d.edges[e].to) # 0
        /\ Cardinality({n \in C : d.edges[n].from = d.edges[e].to}) = 1
        /\ Cardinality({n \in C : d.edges[n].to = d.edges[e].from}) = 1

CycleSets(d) == {C \in SUBSET DOMAIN d.edges : IsCycleSet(d, C)}

LayoutBackflow(d, e, rankdir) ==
    directionalPenalty(nodeCenter(d.nodes[IndexOfId(d.nodes, d.edges[e].from)]),
                       nodeCenter(d.nodes[IndexOfId(d.nodes, d.edges[e].to)]), rankdir)

BackflowMetric(d, rankdir) ==
    SumSeq(ArrayOf([k \in DOMAIN d.edges |-> edgeBackflow(d.nodes, d.edges[k], rankdir)]), 1)

\* ------------------------------------------------------------------------
\* Two equal nodes joined by one unhinted edge, top to bottom, target 16:9
\* ------------------------------------------------------------------------
TwoNodesLaidOut ==
    /\ pc = "done"
    /\ input = DgTwo
    /\ options = [num |-> 16, den |-> 9]

StraightDown(d) ==
    /\ Len(d.edges[1].points) = 2
    /\ d.edges[1].points[1] = sideAnchor(d.nodes[1], "B")
    /\ d.edges[1].points[2] = sideAnchor(d.nodes[2], "T")

\* C21: two equal nodes A and B with one unhinted edge A -> B, laid out top to
\* bottom for a 16:9 target, end with a route of exactly two points from A's
\* bottom anchor to B's top anchor, no overlapping rectangles and no crossings.
\* The restart candidates that applyDeterministicJitter moved sideways beat the
\* aligned one in scoreLayoutQuality, so the pair ends out of line and the
\* route is rebuilt with two bends.
TwoNodesSingleSegment ==
    TwoNodesLaidOut =>
        /\ StraightDown(ir)
        /\ NodeOverlap(ir.nodes) = 0
        /\ CrossingCount(ir) = 0

\* C22: whatever the placement and the flow direction, a directed cycle among
\* the edges has at least one edge whose backflow penalty is strictly positive,
\* so the directionalBackflowPenalty metric is strictly positive.
CyclesCostBackflow ==
    \A C \in CycleSets(ir) :
        /\ \A rankdir \in AllRankdirs :
            /\ \E e \in C : /\ edgeBackflow(ir.nodes, ir.edges[e], rankdir) > 0
                            /\ LayoutBackflow(ir, e, rankdir) > 0
            /\ BackflowMetric(ir, rankdir) > 0
        /\ ReadabilityMetrics(ir).directionalBackflowPenalty > 0

CycleLaidOutWithForwardEdge ==
    /\ pc = "done"
    /\ \E C \in CycleSets(ir) :
        /\ Cardinality(C) > 1
        /\ \E e \in C : edgeBackflow(ir.nodes, ir.edges[e], toRankdir(ir.direction)) = 0
        /\ \E e \in C : edgeBackflow(ir.nodes, ir.edges[e], toRankdir(ir.direction)) > MinForward

\* ------------------------------------------------------------------------
\* The build command with several inputs
\* ------------------------------------------------------------------------
FileEffects == {"read", "compile", "render", "write"}

TouchedFiles == \E k \in DOMAIN build.effects : build.effects[k].op \in FileEffects

UnsupportedMultiInput ==
    /\ Len(build.request.inputs) > 1
    /\ \/ build.request.patch # Undefined
       \/ build.request.irOut
       \/ resolveRenderer(build.request.renderer, build.request.hasUv) # "python"

CollisionInput ==
    AfterMove(enforceTopLevelSubgraphSeparation(SeparationInput, cfg, 8), rankdirOf)

\* C24: resolveAllNodeCollisions returns true whenever it changed the position
\* of a node, so a caller that rebuilds the routes only on true is never left
\* with routes of the old positions.
CollisionsReportEveryMove ==
    PlacementCalled =>
        \A d \in {CollisionInput} :
            \A r \in {resolveAllNodeCollisions(d, CollisionGap(cfg), 3)} :
                r.ir.nodes # d.nodes => r.moved

\* ------------------------------------------------------------------------
\* Pinned nodes across optimizeLayoutWithRestarts
\* ------------------------------------------------------------------------
\* optimizeLayoutWithRestarts has just returned
RestartsReturned == pc = "postPasses"

\* C25: a node pinned by enforceJunctionSidePlacement is, when
\* optimizeLayoutWithRestarts returns, where it was when the function was called.
PinnedKeptByRestarts ==
    RestartsReturned =>
        \A k \in DOMAIN ir.nodes :
            ir.nodes[k].id \in pinned =>
                /\ ir.nodes[k].x = restarts.baseState.nodePositions[k].x
                /\ ir.nodes[k].y = restarts.baseState.nodePositions[k].y

\* ------------------------------------------------------------------------
\* Top-level subgraphs after a separation that came to rest
\* ------------------------------------------------------------------------
\* the rectangles of two subgraphs overlap in x and in y
OverlapInBothAxes(a, b) ==
    /\ a.x < b.x + b.width /\ b.x < a.x + a.width
    /\ a.y < b.y + b.height /\ b.y < a.y + a.height

\* the top-level subgraphs of d that have member nodes
TopLevelWithMembers(d) ==
    {k \in DOMAIN d.subgraphs :
        /\ IsTopLevel(d.subgraphs, d.subgraphs[k])
        /\ \E n \in DOMAIN d.nodes : TopLevelOf(d, n) = d.subgraphs[k].id}

TopLevelApart(d) ==
    \A a, b \in TopLevelWithMembers(d) :
        a # b => ~OverlapInBothAxes(d.subgraphs[a], d.subgraphs[b])

\* C26: when enforceTopLevelSubgraphSeparation stops because a pass moved
\* nothing, no two distinct top-level subgraphs that both have members overlap
\* in both axes.
SeparationRestsApart ==
    PlacementCalled =>
        \A d \in {SeparationInput} :
            \A r \in {enforceTopLevelSubgraphSeparation(d, cfg, 8)} :
                r.quiet => TopLevelApart(r.ir)

SeparationMovedThenRested ==
    /\ PlacementCalled
    /\ \E d \in {SeparationInput} :
          \E r \in {enforceTopLevelSubgraphSeparation(d, cfg, 8)} :
              /\ r.quiet
              /\ r.moved
              /\ Cardinality(TopLevelWithMembers(r.ir)) >= 2
              /\ ~TopLevelApart(Remeasure(d))

\* ------------------------------------------------------------------------
\* Sides once assigned
\* ------------------------------------------------------------------------
BothSidesAssigned(edge) == edge.startSide # "" /\ edge.endSide # ""

SameSides(a, b) == a.startSide = b.startSide /\ a.endSide = b.endSide

\* d with the sides of the edge at k forgotten
WithoutSides(d, k) == [d EXCEPT !.edges[k].startSide = "", !.edges[k].endSide = ""]

\* C27: once inferEdgeSideHints has given an edge both sides, a later call
\* leaves them as they are, wherever the nodes are by then; a second call right
\* after a first one changes nothing.
AssignedSidesStay ==
    \A h \in {inferEdgeSideHints(ir, rankdirOf)} :
        /\ \A k \in DOMAIN ir.edges :
              BothSidesAssigned(ir.edges[k]) => SameSides(h.edges[k], ir.edges[k])
        /\ inferEdgeSideHints(h, rankdirOf) = h

\* an edge without hints got its sides from inferEdgeSideHints, the nodes have
\* moved since, and a fresh choice would now take other sides
AssignedSidesOutlivedMove ==
    /\ pc = "done"
    /\ \E k \in DOMAIN ir.edges :
        /\ ~BothSidesAssigned(input.edges[k])
        /\ input.edges[k].startSide = "" /\ input.edges[k].endSide = ""
        /\ BothSidesAssigned(ir.edges[k])
        /\ ~SameSides(inferEdgeSideHints(WithoutSides(ir, k), rankdirOf).edges[k], ir.edges[k])
        /\ SameSides(inferEdgeSideHints(ir, rankdirOf).edges[k], ir.edges[k])

\* ------------------------------------------------------------------------
\* The shape of rebuilt routes
\* ------------------------------------------------------------------------
\* consecutive points differ in exactly one coordinate
Orthogonal(points) ==
    \A i \in 1..(Len(points) - 1) :
        (points[i].x = points[i + 1].x) # (points[i].y = points[i + 1].y)

\* the diagram rebuildEdgeRoutesFromSideAnchors is called with at 2226
RebuildInput == inferEdgeSideHints(PlacementResult, rankdirOf)

StartSideOf(edge) == IF edge.startSide = "" THEN "R" ELSE edge.startSide

EndSideOf(edge) == IF edge.endSide = "" THEN "L" ELSE edge.endSide

\* the route of the edge at k in out is orthogonal and joins the side anchors
WellShaped(out, k, f, t) ==
    /\ Len(out.edges[k].points) >= 2
    /\ Orthogonal(out.edges[k].points)
    /\ f # t => Len(out.edges[k].points) <= 6
    /\ out.edges[k].points[1] = sideAnchor(out.nodes[f], StartSideOf(out.edges[k]))
    /\ out.edges[k].points[Len(out.edges[k].points)]
         = sideAnchor(out.nodes[t], EndSideOf(out.edges[k]))

\* C28: every route rebuildEdgeRoutesFromSideAnchors produces for an edge with
\* both endpoints present is orthogonal (consecutive points differ in exactly
\* one coordinate), has 2 to 6 points when the edge is not a self-loop, and
\* starts and ends at the side anchors of its from-node and to-node.
RebuiltRoutesAreOrthogonal ==
    PlacementCalled =>
        \A out \in {rebuildEdgeRoutesFromSideAnchors(RebuildInput)} :
            \A k \in DOMAIN out.edges :
                \A f \in {IndexOfId(out.nodes, out.edges[k].from)} :
                    \A t \in {IndexOfId(out.nodes, out.edges[k].to)} :
                        (f # 0 /\ t # 0) => WellShaped(out, k, f, t)

\* the same of the edges between distinct nodes only
OrdinaryRoutesAreOrthogonal ==
    PlacementCalled =>
        \A out \in {rebuildEdgeRoutesFromSideAnchors(RebuildInput)} :
            \A k \in DOMAIN out.edges :
                \A f \in {IndexOfId(out.nodes, out.edges[k].from)} :
                    \A t \in {IndexOfId(out.nodes, out.edges[k].to)} :
                        (f # 0 /\ t # 0 /\ f # t) => WellShaped(out, k, f, t)

\* ------------------------------------------------------------------------
\* Routes after the patch
\* ------------------------------------------------------------------------
\* C29: after applyPatchPostLayout every edge has the route the layout gave it
\* or a route of the patch with at least 2 points: no edge is left with exactly
\* one point, and no routed edge is left with none.
PatchLeavesUsableRoutes ==
    Patched =>
        \A k \in DOMAIN ir.edges :
            /\ \/ ir.edges[k].points = post.entry.edges[k].points
               \/ Len(ir.edges[k].points) >= 2
            /\ Len(ir.edges[k].points) # 1
            /\ post.entry.edges[k].points # <<>> => ir.edges[k].points # <<>>

\* ------------------------------------------------------------------------
\* What tuneLayoutForAspect returns with
\* ------------------------------------------------------------------------
\* layoutDiagram has returned from tuneLayoutForAspect and nothing ran since
TuneReturned == pc = "done" /\ tune.active

\* the restored diagram is the layout of the trial at i with its separations
RestoredTrial(i) ==
    /\ captureLayoutState(ir) = tune.trials[i].state
    /\ ir.nodesep = tune.trials[i].nodesep
    /\ ir.ranksep = tune.trials[i].ranksep
    /\ TuneScore(ir, target) = tune.trials[i].score

\* C30: when tuneLayoutForAspect returns, the restored layout is the one with
\* the smallest |ln(aspect / target)| among the layout with the base
\* separations and every candidate tried, and nodesep and ranksep are those the
\* restored layout was made with.
TuneRestoresClosest ==
    TuneReturned =>
        /\ \E i \in DOMAIN tune.trials : RestoredTrial(i)
        /\ \A i \in DOMAIN tune.trials : TuneScore(ir, target) <= tune.trials[i].score

\* a trial before the last was the closest: its layout is restored and the
\* separations are its own, not those of the last trial
TuneRestoredEarlierTrial ==
    /\ TuneReturned
    /\ Len(tune.trials) >= 2
    /\ \E i \in 1..(Len(tune.trials) - 1) : RestoredTrial(i)
    /\ tune.trials[Len(tune.trials)].score > TuneScore(ir, target)
    /\ ir.nodesep # tune.candidateNodesep

====
